---- MODULE Spec2Model ----
(***************************************************************************)
(* A model of the detection and scoring engine of the campaign monitor:    *)
(*   campaign_detector.py          KeywordDatabase, NLPProcessor,          *)
(*                                 CoordinatedCampaignDetector             *)
(*   enhanced_keyword_database.py  KeywordDatabase (weighted rule store)   *)
(*                                                                         *)
(* Texts are sequences of one-character strings, so that str.lower(), the  *)
(* substring test `in` and the regular-expression search are computed and  *)
(* not assumed.  Weights, severities and sentiment scores are integers in  *)
(* units of 1/100 (2.8 is 280, 7.99 is 799, -0.3 is -30).                  *)
(*                                                                         *)
(* The module holds several specifications over one set of variables; each *)
(* one leaves the variables of the other components untouched:             *)
(*   SpecThreat  the two threat-level step functions                       *)
(*   SpecScore   NLPProcessor scoring against a given rule snapshot        *)
(*   SpecCD      campaign_detector.KeywordDatabase + NLPProcessor          *)
(*   SpecEnh     enhanced_keyword_database.KeywordDatabase                 *)
(*   SpecCoord   CoordinatedCampaignDetector on a batch of contents        *)
(*   SpecCluster _detect_content_similarity on one group, in every order   *)
(*   SpecLevel   _calculate_campaign_threat_level on the tiers of a list   *)
(*   SpecMonitor RealTimeMonitor: start, stop and the monitor threads      *)
(*   SpecReport  generate_threat_report beside a monitor thread            *)
(*   SpecArticles AIAnalyzer.process_unanalyzed_articles on the table      *)
(***************************************************************************)
EXTENDS Integers, Sequences, FiniteSets, TLC

VARIABLES
    \* --- threat-level step functions -------------------------------------
    total_severity,     \* the severity score handed to the classifiers
    threat_level,       \* [default, light]: what each profile returned
    \* --- campaign_detector.KeywordDatabase (sqlite tables, rowid order) ---
    cd_keywords,        \* table keywords
    cd_hashtags,        \* table hashtags
    cd_patterns,        \* table phrase_patterns
    nlp,                \* NLPProcessor: the rules cached by load_nlp_resources
    features,           \* what the last is_anti_india_content call returned
    \* --- enhanced_keyword_database.KeywordDatabase ------------------------
    enh_keywords,       \* table keywords
    enh_hashtags,       \* table hashtags
    enh_patterns,       \* table phrase_patterns
    detection,          \* what the last detect_keywords_in_text call returned
    added,              \* what the last add_keyword / add_hashtag call returned
    active_keywords,    \* what the last get_active_keywords call returned
    \* --- CoordinatedCampaignDetector --------------------------------------
    contents,           \* RealTimeMonitor.detected_contents, in arrival order
    campaigns,          \* what detect_coordinated_campaigns(contents) returned
    analysed,           \* TRUE once campaigns is the result for contents
    campaign_level,     \* what _calculate_campaign_threat_level(contents) returned
    \* --- CoordinatedCampaignDetector._calculate_content_similarity ---------
    sim_contents,       \* the two contents of a call
    similarity,         \* what the call returned
    \* --- engagement_analyzer.EngagementAnalyzer --------------------------
    trending,           \* table trending_patterns, as read at the call
    anomalies,          \* what detect_trending_anomalies returned
    eng_metrics,        \* the metrics of a calculate_engagement_score call
    eng_score,          \* what the call returned
    \* --- campaign_detector.EngagementAnalyzer ----------------------------
    inf_contents,       \* the batch of CampaignContent analysed
    engagement_analysis,\* what the last analyze_engagement call returned
    influencers,        \* what identify_influencers(inf_contents) returned
    \* --- concurrent callers of detect_keywords_in_text -------------------
    rule_count,         \* the committed detection_count of the matched rule
    db_lock,            \* the caller holding the write lock of the file, or 0
    pc,                 \* where each caller is
    polls,              \* the times each caller found the file locked
    \* --- RealTimeMonitor ---------------------------------------------------
    monitoring_active,  \* RealTimeMonitor.monitoring_active
    threads,            \* the monitor threads started so far, where each is
    detected_contents,  \* RealTimeMonitor.detected_contents
    alerts,             \* RealTimeMonitor.alerts
    report,             \* the generate_threat_report call in progress
    \* --- AIAnalyzer.process_unanalyzed_articles ---------------------------
    articles,           \* table articles of database.py
    process_result      \* what the last process_unanalyzed_articles call did

threatVars == <<total_severity, threat_level>>
cdVars     == <<cd_keywords, cd_hashtags, cd_patterns, nlp, features>>
enhVars    == <<enh_keywords, enh_hashtags, enh_patterns, detection, added,
               active_keywords>>
coordVars  == <<contents, campaigns, analysed, campaign_level>>
simVars    == <<sim_contents, similarity>>
\* the state of the detectors, and the state of the analysers
detectorVars == <<threatVars, cdVars, enhVars, coordVars>>
anomalyVars == <<trending, anomalies>>
scoreVars  == <<eng_metrics, eng_score>>
inflVars   == <<inf_contents, engagement_analysis, influencers>>
concVars   == <<rule_count, db_lock, pc, polls>>
monVars    == <<monitoring_active, threads, detected_contents, alerts, report>>
artVars    == <<articles, process_result>>
analysisVars == <<simVars, anomalyVars, scoreVars, inflVars, concVars, monVars,
                  artVars>>
vars       == <<detectorVars, analysisVars>>

(***************************************************************************)
(* Text primitives                                                         *)
(***************************************************************************)

\* str.lower() on one character: the upper-case letters of the model's texts
LowerChar(c) ==
    CASE c = "B" -> "b" [] c = "I" -> "i" [] c = "H" -> "h" [] c = "X" -> "x"
      [] OTHER -> c

\* str.lower()
Lower(s) == [i \in 1..Len(s) |-> LowerChar(s[i])]

\* Python's `needle in hay` on strings: contiguous, case-sensitive
Contains(needle, hay) ==
    \E n \in {needle}, h \in {hay} :
        \E i \in 0..(Len(h) - Len(n)) :
            \A j \in 1..Len(n) : h[i + j] = n[j]

IsSpace(c) == c = " "

\* A regular expression is modelled as a sequence of groups, each group a
\* set of alternatives, each alternative a sequence of literal characters
\* and of the element "\\s+" (one or more white-space characters); an
\* optional group has the empty alternative.
\* MatchEnds: the positions at which a match of alt[k..] starting at s[i]
\* can end (s is lower-cased; the letters of alt are compared lower-cased).
RECURSIVE MatchEnds(_, _, _, _)
MatchEnds(alt, k, s, i) ==
    IF k > Len(alt) THEN {i}
    ELSE IF alt[k] = "\\s+"
         THEN UNION { MatchEnds(alt, k + 1, s, i + n) :
                        n \in {m \in 1..(Len(s) - i + 1) :
                                  \A j \in i..(i + m - 1) : IsSpace(s[j])} }
         ELSE IF i <= Len(s) /\ s[i] = LowerChar(alt[k])
              THEN MatchEnds(alt, k + 1, s, i + 1)
              ELSE {}

RECURSIVE MatchGroups(_, _, _, _)
MatchGroups(regex, g, s, i) ==
    IF g > Len(regex) THEN TRUE
    ELSE \E alt \in regex[g] :
             \E e \in MatchEnds(alt, 1, s, i) : MatchGroups(regex, g + 1, s, e)

\* re.search(pattern, s, re.IGNORECASE) is not None;
\* equally bool(re.compile(pattern, re.IGNORECASE).findall(s))
RegexSearch(regex, s) ==
    \E str \in {Lower(s)} :
        \E i \in 1..(Len(str) + 1) : MatchGroups(regex, 1, str, i)

RECURSIVE SumSeq(_)
SumSeq(s) == IF s = <<>> THEN 0 ELSE Head(s) + SumSeq(Tail(s))

Range(s) == {s[i] : i \in 1..Len(s)}

(***************************************************************************)
(* Threat level: the two threshold tables                                  *)
(***************************************************************************)

CRITICAL_MIN == 2500
HIGH_MIN     == 1500
MEDIUM_MIN   == 800

LIGHT_HIGH_MIN   == 500
LIGHT_MEDIUM_MIN == 300
LIGHT_LOW_MIN    == 100

ThreatLevelStrict(sev) ==
    IF sev > CRITICAL_MIN THEN "CRITICAL"
    ELSE IF sev > HIGH_MIN THEN "HIGH"
    ELSE IF sev > MEDIUM_MIN THEN "MEDIUM"
    ELSE "LOW"

\* NLPProcessor.extract_features, "Determine threat level"
ThreatLevel(sev) ==
    IF sev >= CRITICAL_MIN THEN "CRITICAL"
    ELSE IF sev >= HIGH_MIN THEN "HIGH"
    ELSE IF sev >= MEDIUM_MIN THEN "MEDIUM"
    ELSE "LOW"

\* enhanced KeywordDatabase.detect_keywords_in_text, "Calculate threat level"
ThreatLevelLight(score) ==
    IF score >= LIGHT_HIGH_MIN THEN "HIGH"
    ELSE IF score >= LIGHT_MEDIUM_MIN THEN "MEDIUM"
    ELSE IF score >= LIGHT_LOW_MIN THEN "LOW"
    ELSE "NONE"

\* bounds of the severities handed to the classifiers
MaxSeverity == 2600
NegSeverity == 100

NotClassified == "-"

ThreatInit ==
    /\ total_severity \in (0 - NegSeverity)..MaxSeverity
    /\ threat_level = [default |-> NotClassified, light |-> NotClassified]

ThreatIdle ==
    /\ total_severity = 0
    /\ threat_level = [default |-> NotClassified, light |-> NotClassified]


(***************************************************************************)
(* Texts: the contents scored in SpecScore, SpecCD and SpecEnh             *)
(***************************************************************************)

\* "boycott India and Hindu terrorism now #BoycottIndia"
ExampleText ==
    <<"b","o","y","c","o","t","t"," ","I","n","d","i","a"," ","a","n","d"," ","H","i","n","d","u"," ","t","e","r","r","o","r","i","s","m"," ","n","o","w"," ","#","B","o","y","c","o","t","t","I","n","d","i","a">>

\* "boycott India", "#BoycottIndia", "India is terrorist state"
Fragments ==
    { <<"b","o","y","c","o","t","t"," ","I","n","d","i","a">>,
      <<"#","B","o","y","c","o","t","t","I","n","d","i","a">>,
      <<"I","n","d","i","a"," ","i","s"," ","t","e","r","r","o","r","i","s","t"," ","s","t","a","t","e">> }

\* a content is at most MaxFrags fragments joined by single spaces
MaxFrags == 2

RECURSIVE JoinFrags(_)
JoinFrags(fs) ==
    IF Len(fs) = 0 THEN <<>>
    ELSE IF Len(fs) = 1 THEN fs[1]
    ELSE fs[1] \o <<" ">> \o JoinFrags(Tail(fs))

Texts ==
    {JoinFrags(fs) : fs \in UNION {[1..n -> Fragments] : n \in 0..MaxFrags}}
        \cup {ExampleText}

\* TextBlob polarity of a content (external), in 1/100; 0 is also the value
\* the except branch substitutes
Sentiments == {-31, -30, 0}

(***************************************************************************)
(* campaign_detector.KeywordDatabase                                       *)
(***************************************************************************)

\* r"India (is|are) (terrorist|terrorism)"
IndiaTerroristRegex ==
    << { <<"I","n","d","i","a"," ">> },
       { <<"i","s">>, <<"a","r","e">> },
       { <<" ">> },
       { <<"t","e","r","r","o","r","i","s","t">>,
         <<"t","e","r","r","o","r","i","s","m">> } >>

\* load_initial_keywords: a part of initial_keywords, with the letter case
\* of the source ("boycott India")
InitialKeywords ==
    << [keyword |-> <<"b","o","y","c","o","t","t"," ","I","n","d","i","a">>,
        category |-> "economic_warfare", severity |-> 700] >>

\* load_initial_keywords: a part of initial_hashtags ("#BoycottIndia")
InitialHashtags ==
    << [hashtag |-> <<"#","B","o","y","c","o","t","t","I","n","d","i","a">>,
        category |-> "economic_warfare", severity |-> 700] >>

\* load_initial_keywords: a part of initial_patterns
InitialPatterns ==
    << [pattern |-> IndiaTerroristRegex,
        description |-> "India terrorism accusation", severity |-> 900] >>

\* INSERT OR IGNORE INTO keywords: keyword is UNIQUE (compared exactly)
RECURSIVE InsertOrIgnoreKeywords(_, _)
InsertOrIgnoreKeywords(rows, new) ==
    IF new = <<>> THEN rows
    ELSE InsertOrIgnoreKeywords(
             IF \E i \in 1..Len(rows) : rows[i].keyword = Head(new).keyword
             THEN rows
             ELSE Append(rows, [keyword |-> Head(new).keyword,
                                category |-> Head(new).category,
                                severity |-> Head(new).severity,
                                detection_count |-> 0,
                                is_active |-> TRUE]),
             Tail(new))

\* INSERT OR IGNORE INTO hashtags: hashtag is UNIQUE (compared exactly)
RECURSIVE InsertOrIgnoreHashtags(_, _)
InsertOrIgnoreHashtags(rows, new) ==
    IF new = <<>> THEN rows
    ELSE InsertOrIgnoreHashtags(
             IF \E i \in 1..Len(rows) : rows[i].hashtag = Head(new).hashtag
             THEN rows
             ELSE Append(rows, [hashtag |-> Head(new).hashtag,
                                category |-> Head(new).category,
                                severity |-> Head(new).severity,
                                detection_count |-> 0]),
             Tail(new))

\* INSERT OR IGNORE INTO phrase_patterns: the table has no UNIQUE column, so
\* nothing is ever ignored and every row is inserted
InsertPatterns(rows, new) ==
    rows \o [i \in 1..Len(new) |->
                [pattern |-> new[i].pattern,
                 description |-> new[i].description,
                 severity |-> new[i].severity,
                 detection_count |-> 0]]

\* ORDER BY severity DESC: rows of equal severity keep their rowid order
RECURSIVE OrderBySeverityDesc(_)
OrderBySeverityDesc(rows) ==
    IF rows = <<>> THEN <<>>
    ELSE LET top == CHOOSE i \in 1..Len(rows) :
                        /\ \A j \in 1..Len(rows) : rows[j].severity <= rows[i].severity
                        /\ \A j \in 1..(i - 1) : rows[j].severity < rows[i].severity
         IN  <<rows[top]>> \o
             OrderBySeverityDesc(SubSeq(rows, 1, top - 1)
                                 \o SubSeq(rows, top + 1, Len(rows)))

\* KeywordDatabase.get_active_keywords
CdGetActiveKeywords(rows) ==
    LET active == SelectSeq(OrderBySeverityDesc(rows), LAMBDA r : r.is_active)
    IN  [i \in 1..Len(active) |->
            [keyword |-> active[i].keyword, category |-> active[i].category,
             severity |-> active[i].severity]]

\* KeywordDatabase.get_hashtags
CdGetHashtags(rows) ==
    LET sorted == OrderBySeverityDesc(rows)
    IN  [i \in 1..Len(sorted) |->
            [hashtag |-> sorted[i].hashtag, category |-> sorted[i].category,
             severity |-> sorted[i].severity]]

\* KeywordDatabase.get_patterns
CdGetPatterns(rows) ==
    LET sorted == OrderBySeverityDesc(rows)
    IN  [i \in 1..Len(sorted) |->
            [pattern |-> sorted[i].pattern, description |-> sorted[i].description,
             severity |-> sorted[i].severity]]

\* KeywordDatabase.update_detection_count(keyword, "keyword"):
\* UPDATE keywords SET detection_count = detection_count + 1 WHERE keyword = lower(keyword)
UpdateKeywordCount(rows, keyword) ==
    [i \in 1..Len(rows) |->
        IF rows[i].keyword = Lower(keyword)
        THEN [rows[i] EXCEPT !.detection_count = @ + 1]
        ELSE rows[i]]

\* KeywordDatabase.update_detection_count(hashtag, "hashtag")
UpdateHashtagCount(rows, hashtag) ==
    [i \in 1..Len(rows) |->
        IF rows[i].hashtag = Lower(hashtag)
        THEN [rows[i] EXCEPT !.detection_count = @ + 1]
        ELSE rows[i]]

\* KeywordDatabase.__init__ on an existing database file: init_database
\* (CREATE TABLE IF NOT EXISTS changes nothing) and load_initial_keywords
CdLoadInitialKeywords ==
    /\ cd_keywords' = InsertOrIgnoreKeywords(cd_keywords, InitialKeywords)
    /\ cd_hashtags' = InsertOrIgnoreHashtags(cd_hashtags, InitialHashtags)
    /\ cd_patterns' = InsertPatterns(cd_patterns, InitialPatterns)

\* KeywordDatabase.add_keyword: INSERT OR REPLACE of the lower-cased keyword
\* (a row with that keyword is deleted, the new row gets a fresh rowid)
CdInsertOrReplaceKeyword(rows, keyword, category, severity) ==
    Append(SelectSeq(rows, LAMBDA r : r.keyword # Lower(keyword)),
           [keyword |-> Lower(keyword), category |-> category,
            severity |-> severity, detection_count |-> 0, is_active |-> TRUE])

(***************************************************************************)
(* campaign_detector.NLPProcessor                                          *)
(***************************************************************************)

NoNLP == [loaded |-> FALSE, keywords |-> <<>>, hashtags |-> <<>>, patterns |-> <<>>]

NoFeatures ==
    [valid |-> FALSE, content |-> <<>>, matched_keywords |-> <<>>,
     matched_hashtags |-> <<>>, matched_patterns |-> <<>>,
     sentiment_score |-> 0, threat_level |-> "LOW", total_severity |-> 0,
     is_anti_india |-> FALSE]

\* load_nlp_resources
LoadNlpResources(kws, hts, pats) ==
    [loaded |-> TRUE, keywords |-> CdGetActiveKeywords(kws),
     hashtags |-> CdGetHashtags(hts), patterns |-> CdGetPatterns(pats)]

ContentRaw(content) == content

\* extract_features: content_lower = content.lower()
ContentLower(content) == Lower(content)

\* extract_features: keyword.lower() in content_lower
KeywordMatches(keyword, content) == Contains(Lower(keyword), ContentLower(content))

\* extract_features: pattern.findall(content) is non-empty
PatternMatches(pattern, content) == RegexSearch(pattern, content)

\* extract_features: the rules of the cached snapshot found in the content
MatchedKeywords(content) ==
    SelectSeq(nlp.keywords, LAMBDA k : KeywordMatches(k.keyword, content))

MatchedHashtags(content) ==
    SelectSeq(nlp.hashtags, LAMBDA h : KeywordMatches(h.hashtag, content))

MatchedPatterns(content) ==
    SelectSeq(nlp.patterns, LAMBDA p : PatternMatches(p.pattern, content))

Severities(rules) == [i \in 1..Len(rules) |-> rules[i].severity]

\* extract_features: the features dictionary (hashtags_found, mentions_found
\* and urls_found, which no score depends on, are left out)
ExtractFeatures(content, sentiment) ==
    LET mk  == MatchedKeywords(content)
        mh  == MatchedHashtags(content)
        mp  == MatchedPatterns(content)
        sev == SumSeq(Severities(mk)) + SumSeq(Severities(mh)) + SumSeq(Severities(mp))
    IN  [valid |-> TRUE, content |-> content,
         matched_keywords |-> mk, matched_hashtags |-> mh,
         matched_patterns |-> [i \in 1..Len(mp) |->
                                  [pattern |-> mp[i].description,
                                   severity |-> mp[i].severity]],
         sentiment_score |-> sentiment,
         threat_level |-> ThreatLevel(sev),
         total_severity |-> sev,
         is_anti_india |-> FALSE]

\* extract_features: the update_detection_count calls, one per matched
\* keyword, in the order of the snapshot
RECURSIVE CountKeywords(_, _)
CountKeywords(rows, matched) ==
    IF matched = <<>> THEN rows
    ELSE CountKeywords(UpdateKeywordCount(rows, Head(matched).keyword), Tail(matched))

RECURSIVE CountHashtags(_, _)
CountHashtags(rows, matched) ==
    IF matched = <<>> THEN rows
    ELSE CountHashtags(UpdateHashtagCount(rows, Head(matched).hashtag), Tail(matched))

IsAntiIndiaNoPatterns(f) ==
    \/ Len(f.matched_keywords) > 0
    \/ Len(f.matched_hashtags) > 0
    \/ (f.sentiment_score < -30 /\ f.total_severity > 300)

\* the sentiment clause without its severity floor
IsAntiIndiaBySentiment(f) ==
    \/ Len(f.matched_keywords) > 0
    \/ Len(f.matched_hashtags) > 0
    \/ Len(f.matched_patterns) > 0
    \/ f.sentiment_score < -30

\* is_anti_india_content: the relevance gate
IsAntiIndia(f) ==
    \/ Len(f.matched_keywords) > 0
    \/ Len(f.matched_hashtags) > 0
    \/ Len(f.matched_patterns) > 0
    \/ (f.sentiment_score < -30 /\ f.total_severity > 300)

\* the model stops scoring once a detection counter has reached MaxDetections
MaxDetections == 2

CountsBelowBound ==
    /\ \A i \in 1..Len(cd_keywords) : cd_keywords[i].detection_count < MaxDetections
    /\ \A i \in 1..Len(cd_hashtags) : cd_hashtags[i].detection_count < MaxDetections

\* NLPProcessor.is_anti_india_content(content), with everything
\* extract_features does to the database; the polarity TextBlob returns
\* for the content is any of Sentiments
IsAntiIndiaContent(content) ==
    /\ nlp.loaded
    /\ CountsBelowBound
    /\ \E f \in {ExtractFeatures(content, 0)} :
           /\ cd_keywords' = CountKeywords(cd_keywords, f.matched_keywords)
           /\ cd_hashtags' = CountHashtags(cd_hashtags, f.matched_hashtags)
           /\ \E sentiment \in Sentiments :
                  LET g == [f EXCEPT !.sentiment_score = sentiment]
                  IN  features' = [g EXCEPT !.is_anti_india = IsAntiIndia(g)]
    /\ UNCHANGED <<cd_patterns, nlp>>
    /\ UNCHANGED <<threatVars, enhVars, coordVars, analysisVars>>

(***************************************************************************)
(* enhanced_keyword_database.KeywordDatabase                               *)
(***************************************************************************)

\* r"india\s+is\s+(a\s+)?terrorist\s+(nation|state|country)"
IndiaTerroristNationRegex ==
    << { <<"i","n","d","i","a","\\s+","i","s","\\s+">> },
       { <<"a","\\s+">>, <<>> },
       { <<"t","e","r","r","o","r","i","s","t","\\s+">> },
       { <<"n","a","t","i","o","n">>,
         <<"s","t","a","t","e">>,
         <<"c","o","u","n","t","r","y">> } >>

\* load_default_keywords: a part of default_keywords, with the letter case
\* of the source ("boycott India")
DefaultKeywords ==
    << [keyword |-> <<"b","o","y","c","o","t","t"," ","I","n","d","i","a">>,
        category |-> "boycott_campaign", weight |-> 280] >>

\* load_default_keywords: a part of default_hashtags ("#BoycottIndia")
DefaultHashtags ==
    << [hashtag |-> <<"#","B","o","y","c","o","t","t","I","n","d","i","a">>,
        category |-> "boycott_campaign", weight |-> 250, platform |-> "twitter"] >>

\* load_default_keywords: a part of phrase_patterns
DefaultPatterns ==
    << [pattern |-> "India is terrorist nation",
        regex_pattern |-> IndiaTerroristNationRegex,
        category |-> "propaganda", weight |-> 250] >>

\* load_default_keywords: nothing is loaded once the keywords table has a row
EnhLoadDefaultKeywords ==
    IF Len(enh_keywords) > 0
    THEN UNCHANGED <<enh_keywords, enh_hashtags, enh_patterns>>
    ELSE /\ enh_keywords' =
                [i \in 1..Len(DefaultKeywords) |->
                    [keyword |-> DefaultKeywords[i].keyword,
                     category |-> DefaultKeywords[i].category,
                     weight |-> DefaultKeywords[i].weight,
                     detection_count |-> 0, is_active |-> TRUE]]
         /\ enh_hashtags' =
                [i \in 1..Len(DefaultHashtags) |->
                    [hashtag |-> DefaultHashtags[i].hashtag,
                     category |-> DefaultHashtags[i].category,
                     weight |-> DefaultHashtags[i].weight,
                     platform |-> DefaultHashtags[i].platform,
                     usage_count |-> 0]]
         /\ enh_patterns' = enh_patterns \o
                [i \in 1..Len(DefaultPatterns) |->
                    [pattern |-> DefaultPatterns[i].pattern,
                     regex_pattern |-> DefaultPatterns[i].regex_pattern,
                     category |-> DefaultPatterns[i].category,
                     weight |-> DefaultPatterns[i].weight,
                     detection_count |-> 0]]

\* add_keyword: INSERT of the lower-cased keyword; sqlite3.IntegrityError
\* (keyword is UNIQUE, compared exactly) makes it return False
EnhAddKeywordAccepted(keyword) ==
    \A i \in 1..Len(enh_keywords) : enh_keywords[i].keyword # Lower(keyword)

\* add_hashtag: hashtag if hashtag.startswith('#') else f"#{hashtag}"
WithHash(hashtag) ==
    IF Len(hashtag) > 0 /\ hashtag[1] = "#" THEN hashtag ELSE <<"#">> \o hashtag

EnhAddHashtagAccepted(hashtag) ==
    \A i \in 1..Len(enh_hashtags) : enh_hashtags[i].hashtag # Lower(WithHash(hashtag))

\* ORDER BY weight DESC alone
RECURSIVE OrderKeywordsByWeight(_)
OrderKeywordsByWeight(rows) ==
    IF rows = <<>> THEN <<>>
    ELSE LET top == CHOOSE i \in 1..Len(rows) :
                        /\ \A j \in 1..Len(rows) : rows[j].weight <= rows[i].weight
                        /\ \A j \in 1..(i - 1) : rows[j].weight < rows[i].weight
         IN  <<rows[top]>> \o
             OrderKeywordsByWeight(SubSeq(rows, 1, top - 1)
                                       \o SubSeq(rows, top + 1, Len(rows)))

\* ORDER BY weight DESC, detection_count DESC (ties in rowid order)
RECURSIVE OrderKeywords(_)
OrderKeywords(rows) ==
    IF rows = <<>> THEN <<>>
    ELSE LET Above(a, b) == \/ a.weight > b.weight
                            \/ a.weight = b.weight /\ a.detection_count > b.detection_count
             top == CHOOSE i \in 1..Len(rows) :
                        /\ \A j \in 1..Len(rows) : ~Above(rows[j], rows[i])
                        /\ \A j \in 1..(i - 1) : Above(rows[i], rows[j])
         IN  <<rows[top]>> \o
             OrderKeywords(SubSeq(rows, 1, top - 1) \o SubSeq(rows, top + 1, Len(rows)))

\* ORDER BY weight DESC, usage_count DESC (ties in rowid order)
RECURSIVE OrderHashtags(_)
OrderHashtags(rows) ==
    IF rows = <<>> THEN <<>>
    ELSE LET Above(a, b) == \/ a.weight > b.weight
                            \/ a.weight = b.weight /\ a.usage_count > b.usage_count
             top == CHOOSE i \in 1..Len(rows) :
                        /\ \A j \in 1..Len(rows) : ~Above(rows[j], rows[i])
                        /\ \A j \in 1..(i - 1) : Above(rows[i], rows[j])
         IN  <<rows[top]>> \o
             OrderHashtags(SubSeq(rows, 1, top - 1) \o SubSeq(rows, top + 1, Len(rows)))

AnyCategory == "*"

\* get_active_keywords(category, min_weight)
GetActiveKeywords(rows, category, min_weight) ==
    LET kept == SelectSeq(rows, LAMBDA r :
                    /\ r.is_active
                    /\ r.weight >= min_weight
                    /\ (category = AnyCategory \/ r.category = category))
        sorted == OrderKeywords(kept)
    IN  [i \in 1..Len(sorted) |->
            [keyword |-> sorted[i].keyword, category |-> sorted[i].category,
             weight |-> sorted[i].weight,
             detection_count |-> sorted[i].detection_count]]

\* get_active_hashtags() with no platform
GetActiveHashtags(rows) ==
    LET sorted == OrderHashtags(rows)
    IN  [i \in 1..Len(sorted) |->
            [hashtag |-> sorted[i].hashtag, category |-> sorted[i].category,
             weight |-> sorted[i].weight, platform |-> sorted[i].platform,
             usage_count |-> sorted[i].usage_count]]

\* detect_keywords_in_text: kw['keyword'] in text_lower (the stored keyword
\* is used as it is)
EnhKeywordMatches(keyword, text) == Contains(keyword, Lower(text))

\* detect_keywords_in_text: re.search(regex_pattern, text_lower, re.IGNORECASE)
EnhPatternMatches(regex, text) == RegexSearch(regex, Lower(text))

Weights(rules) == [i \in 1..Len(rules) |-> rules[i].weight]

NoDetection ==
    [valid |-> FALSE, text |-> <<>>, detected_keywords |-> <<>>,
     detected_hashtags |-> <<>>, detected_patterns |-> <<>>,
     total_score |-> 0, threat_level |-> "NONE", categories |-> {}]

\* detect_keywords_in_text: the dictionary it returns, for the given tables
DetectKeywordsInText(kws, hts, pats, text) ==
    LET dk == SelectSeq(GetActiveKeywords(kws, AnyCategory, 0),
                        LAMBDA k : EnhKeywordMatches(k.keyword, text))
        dh == SelectSeq(GetActiveHashtags(hts),
                        LAMBDA h : EnhKeywordMatches(h.hashtag, text))
        mp == SelectSeq(pats, LAMBDA p : EnhPatternMatches(p.regex_pattern, text))
        dp == [i \in 1..Len(mp) |->
                  [pattern |-> mp[i].pattern, category |-> mp[i].category,
                   weight |-> mp[i].weight]]
        score == SumSeq(Weights(dk)) + SumSeq(Weights(dh)) + SumSeq(Weights(dp))
    IN  [valid |-> TRUE, text |-> text,
         detected_keywords |-> dk, detected_hashtags |-> dh,
         detected_patterns |-> dp,
         total_score |-> score,
         threat_level |-> ThreatLevelLight(score),
         categories |-> {dk[i].category : i \in 1..Len(dk)}
                        \cup {dh[i].category : i \in 1..Len(dh)}
                        \cup {dp[i].category : i \in 1..Len(dp)}]

\* detect_keywords_in_text: UPDATE keywords ... WHERE keyword = ?, once per
\* detected keyword
RECURSIVE EnhCountKeywords(_, _)
EnhCountKeywords(rows, detected) ==
    IF detected = <<>> THEN rows
    ELSE EnhCountKeywords(
             [i \in 1..Len(rows) |->
                 IF rows[i].keyword = Head(detected).keyword
                 THEN [rows[i] EXCEPT !.detection_count = @ + 1]
                 ELSE rows[i]],
             Tail(detected))

\* detect_keywords_in_text: UPDATE hashtags ... WHERE hashtag = ?
RECURSIVE EnhCountHashtags(_, _)
EnhCountHashtags(rows, detected) ==
    IF detected = <<>> THEN rows
    ELSE EnhCountHashtags(
             [i \in 1..Len(rows) |->
                 IF rows[i].hashtag = Head(detected).hashtag
                 THEN [rows[i] EXCEPT !.usage_count = @ + 1]
                 ELSE rows[i]],
             Tail(detected))

\* detect_keywords_in_text: UPDATE phrase_patterns ... WHERE pattern = ?
RECURSIVE EnhCountPatterns(_, _)
EnhCountPatterns(rows, detected) ==
    IF detected = <<>> THEN rows
    ELSE EnhCountPatterns(
             [i \in 1..Len(rows) |->
                 IF rows[i].pattern = Head(detected).pattern
                 THEN [rows[i] EXCEPT !.detection_count = @ + 1]
                 ELSE rows[i]],
             Tail(detected))

\* what the callers of add_keyword and add_hashtag pass
AddedKeywords == { <<"b","o","y","c","o","t","t"," ","I","n","d","i","a">> }
AddedHashtags == { <<"#","B","o","y","c","o","t","t","I","n","d","i","a">>,
                   <<"B","o","y","c","o","t","t","I","n","d","i","a">> }
AddedCategories == {"custom"}
AddedWeights == {250, -100}

EnhConstructed == Len(enh_keywords) > 0

EnhCountsBelowBound ==
    /\ \A i \in 1..Len(enh_keywords) : enh_keywords[i].detection_count < MaxDetections
    /\ \A i \in 1..Len(enh_hashtags) : enh_hashtags[i].usage_count < MaxDetections
    /\ \A i \in 1..Len(enh_patterns) : enh_patterns[i].detection_count < MaxDetections

\* KeywordDatabase.__init__: init_keyword_tables (CREATE TABLE IF NOT EXISTS)
\* and load_default_keywords
EnhConstruct ==
    /\ EnhLoadDefaultKeywords
    /\ UNCHANGED <<detection, added, active_keywords>>
    /\ UNCHANGED <<threatVars, cdVars, coordVars, analysisVars>>

\* KeywordDatabase.add_keyword
EnhAddKeyword(keyword, category, weight) ==
    /\ EnhConstructed
    /\ IF EnhAddKeywordAccepted(keyword)
       THEN /\ enh_keywords' = Append(enh_keywords,
                    [keyword |-> Lower(keyword), category |-> category,
                     weight |-> weight, detection_count |-> 0, is_active |-> TRUE])
            /\ added' = "True"
       ELSE /\ UNCHANGED enh_keywords
            /\ added' = "False"
    /\ UNCHANGED <<enh_hashtags, enh_patterns, detection, active_keywords>>
    /\ UNCHANGED <<threatVars, cdVars, coordVars, analysisVars>>

\* KeywordDatabase.add_hashtag
EnhAddHashtag(hashtag, category, weight, platform) ==
    /\ EnhConstructed
    /\ IF EnhAddHashtagAccepted(hashtag)
       THEN /\ enh_hashtags' = Append(enh_hashtags,
                    [hashtag |-> Lower(WithHash(hashtag)), category |-> category,
                     weight |-> weight, platform |-> platform, usage_count |-> 0])
            /\ added' = "True"
       ELSE /\ UNCHANGED enh_hashtags
            /\ added' = "False"
    /\ UNCHANGED <<enh_keywords, enh_patterns, detection, active_keywords>>
    /\ UNCHANGED <<threatVars, cdVars, coordVars, analysisVars>>

\* KeywordDatabase.detect_keywords_in_text
EnhDetect(text) ==
    /\ EnhConstructed
    /\ EnhCountsBelowBound
    /\ \E d \in {DetectKeywordsInText(enh_keywords, enh_hashtags, enh_patterns, text)} :
           /\ detection' = d
           /\ enh_keywords' = EnhCountKeywords(enh_keywords, d.detected_keywords)
           /\ enh_hashtags' = EnhCountHashtags(enh_hashtags, d.detected_hashtags)
           /\ enh_patterns' = EnhCountPatterns(enh_patterns, d.detected_patterns)
    /\ UNCHANGED <<added, active_keywords>>
    /\ UNCHANGED <<threatVars, cdVars, coordVars, analysisVars>>

\* a caller of get_active_keywords, with its arguments (min_weight in 1/100)
QueryCategories == {AnyCategory, "custom"}
QueryWeights == {0, 260}

\* the keywords added before the queries: "boycott India" and "boycott"
QueryKeywords == AddedKeywords \cup { <<"b","o","y","c","o","t","t">> }

\* the texts analysed between the queries: "boycott India" and "boycott"
QueryTexts == { <<"b","o","y","c","o","t","t"," ","I","n","d","i","a">>,
                <<"b","o","y","c","o","t","t">> }

NoQuery == [done |-> FALSE]

EnhGetActiveKeywords(category, min_weight) ==
    /\ EnhConstructed
    /\ active_keywords' =
           [done |-> TRUE, category |-> category, min_weight |-> min_weight,
            rows |-> GetActiveKeywords(enh_keywords, category, min_weight)]
    /\ UNCHANGED <<enh_keywords, enh_hashtags, enh_patterns, detection, added>>
    /\ UNCHANGED <<threatVars, cdVars, coordVars, analysisVars>>

EnhInit ==
    /\ enh_keywords = <<>>
    /\ enh_hashtags = <<>>
    /\ enh_patterns = <<>>
    /\ detection = NoDetection
    /\ added = "-"
    /\ active_keywords = NoQuery

EnhIdle == EnhInit

(***************************************************************************)
(* campaign_detector.CoordinatedCampaignDetector                           *)
(***************************************************************************)

\* datetime.replace(hour=0, minute=0, second=0): the day-window key
\* (microsecond is not among the fields the call resets)
DayKey(ts) == [ts EXCEPT !.hour = 0, !.minute = 0, !.second = 0]

\* datetime.replace(minute=0, second=0, microsecond=0): the hour-window key
HourKey(ts) == [ts EXCEPT !.minute = 0, !.second = 0, !.microsecond = 0]

\* seconds since the start of day 0
SecondsOf(ts) == ((ts.day * 24 + ts.hour) * 60 + ts.minute) * 60 + ts.second

\* datetime <=
TimeLeq(t1, t2) ==
    \/ SecondsOf(t1) < SecondsOf(t2)
    \/ SecondsOf(t1) = SecondsOf(t2) /\ t1.microsecond <= t2.microsecond

Indices(s) == [i \in 1..Len(s) |-> i]

\* the keys of a defaultdict in insertion order: the distinct elements of s
\* in the order of their first occurrence
FirstOccurrences(s) ==
    LET first == SelectSeq(Indices(s),
                           LAMBDA i : \A j \in 1..(i - 1) : s[j] # s[i])
    IN  [k \in 1..Len(first) |-> s[first[k]]]

\* \w over the alphabet of the model's texts (letters, blank, #)
IsWordChar(c) == ~IsSpace(c) /\ c # "#"

\* re.findall(r'#\w+', content): every # followed by word characters, with
\* the longest run of word characters after it, in order of occurrence
HashtagsFound(content) ==
    LET n      == Len(content)
        starts == SelectSeq(Indices(content),
                            LAMBDA i : /\ content[i] = "#"
                                       /\ i < n
                                       /\ IsWordChar(content[i + 1]))
        end(i) == CHOOSE e \in (i + 1)..n :
                      /\ \A j \in (i + 1)..e : IsWordChar(content[j])
                      /\ e = n \/ ~IsWordChar(content[e + 1])
    IN  [k \in 1..Len(starts) |-> SubSeq(content, starts[k], end(starts[k]))]

\* the split without the lower-casing
WordSetCased(content) ==
    LET s == content
        n == Len(s)
    IN  {SubSeq(s, i, j) : <<i, j>> \in
            {p \in (1..n) \X (1..n) :
                /\ p[1] <= p[2]
                /\ \A k \in p[1]..p[2] : ~IsSpace(s[k])
                /\ p[1] = 1 \/ IsSpace(s[p[1] - 1])
                /\ p[2] = n \/ IsSpace(s[p[2] + 1])}}

\* set(content.lower().split()): the set of maximal blank-free runs
WordSet(content) ==
    LET s == Lower(content)
        n == Len(s)
    IN  {SubSeq(s, i, j) : <<i, j>> \in
            {p \in (1..n) \X (1..n) :
                /\ p[1] <= p[2]
                /\ \A k \in p[1]..p[2] : ~IsSpace(s[k])
                /\ p[1] = 1 \/ IsSpace(s[p[1] - 1])
                /\ p[2] = n \/ IsSpace(s[p[2] + 1])}}

\* _calculate_content_similarity(content1, content2) > similarity_threshold,
\* the threshold being 0.8 = 4/5; the similarity is 0.0 when the union is
\* empty
SIMILARITY_NUM == 4
SIMILARITY_DEN == 5

Similar(content1, content2) ==
    LET words1 == WordSet(content1)
        words2 == WordSet(content2)
        intersection == Cardinality(words1 \cap words2)
        union        == Cardinality(words1 \cup words2)
    IN  union > 0 /\ SIMILARITY_DEN * intersection > SIMILARITY_NUM * union

AuthorsOf(posts) == {posts[i].author : i \in 1..Len(posts)}

PlatformsOf(posts) == {posts[i].platform : i \in 1..Len(posts)}

\* the ids of the posts of a list, each once
IdsOf(posts) == {posts[i].id : i \in 1..Len(posts)}

\* _calculate_time_span: max(timestamps) - min(timestamps), as a timedelta
\* [seconds, microseconds] with 0 <= microseconds
CalculateTimeSpan(posts) ==
    LET stamps == {posts[i].timestamp : i \in 1..Len(posts)}
        hi == CHOOSE t \in stamps : \A u \in stamps : TimeLeq(u, t)
        lo == CHOOSE t \in stamps : \A u \in stamps : TimeLeq(t, u)
        ds == SecondsOf(hi) - SecondsOf(lo)
        du == hi.microsecond - lo.microsecond
    IN  IF du >= 0 THEN [seconds |-> ds, microseconds |-> du]
        ELSE [seconds |-> ds - 1, microseconds |-> du + 1000000]

\* threat_scores.get(c.threat_level, 1)
ThreatScore(level) ==
    CASE level = "LOW" -> 1 [] level = "MEDIUM" -> 2 [] level = "HIGH" -> 3
      [] level = "CRITICAL" -> 4 [] OTHER -> 1

\* the cutoffs taken as exclusive
CalculateCampaignThreatLevelStrict(posts) ==
    LET total == SumSeq([i \in 1..Len(posts) |-> ThreatScore(posts[i].threat_level)])
        n     == Len(posts)
    IN  IF 2 * total > 7 * n THEN "CRITICAL"
        ELSE IF 2 * total > 5 * n THEN "HIGH"
        ELSE IF 2 * total > 3 * n THEN "MEDIUM"
        ELSE "LOW"

\* _calculate_campaign_threat_level: the average against 3.5, 2.5 and 1.5,
\* compared as 2 * sum against 7, 5 and 3 times the number of posts
CalculateCampaignThreatLevel(posts) ==
    LET total == SumSeq([i \in 1..Len(posts) |-> ThreatScore(posts[i].threat_level)])
        n     == Len(posts)
    IN  IF 2 * total >= 7 * n THEN "CRITICAL"
        ELSE IF 2 * total >= 5 * n THEN "HIGH"
        ELSE IF 2 * total >= 3 * n THEN "MEDIUM"
        ELSE "LOW"

\* the minimums of the three detectors and of a day window
DAY_MIN_POSTS          == 3
HASHTAG_MIN_POSTS      == 5
HASHTAG_MIN_AUTHORS    == 3
SIMILARITY_MIN_POSTS   == 3
SIMILARITY_MIN_AUTHORS == 2
TIMING_MIN_POSTS       == 5
TIMING_MIN_AUTHORS     == 3

\* _detect_hashtag_coordination: hashtag_usage as the list of its appends,
\* one per hashtag of each post, keyed by hashtag.lower()
RECURSIVE HashtagUsage(_)
HashtagUsage(posts) ==
    IF posts = <<>> THEN <<>>
    ELSE [i \in 1..Len(Head(posts).hashtags) |->
             [hashtag |-> Lower(Head(posts).hashtags[i]), content |-> Head(posts)]]
         \o HashtagUsage(Tail(posts))

\* hashtag_usage[hashtag]
HashtagContents(usage, hashtag) ==
    LET uses == SelectSeq(usage, LAMBDA u : u.hashtag = hashtag)
    IN  [i \in 1..Len(uses) |-> uses[i].content]

\* the dictionary appended to campaigns; members (the ids of the posts of
\* the list, each once) is not a key of the dictionary: it records which
\* posts the list held
HashtagCampaign(hashtag, hashtag_contents) ==
    [type              |-> "hashtag_coordination",
     hashtag           |-> hashtag,
     accounts_involved |-> AuthorsOf(hashtag_contents),
     post_count        |-> Len(hashtag_contents),
     time_span         |-> CalculateTimeSpan(hashtag_contents),
     platforms         |-> PlatformsOf(hashtag_contents),
     threat_level      |-> CalculateCampaignThreatLevel(hashtag_contents),
     members           |-> IdsOf(hashtag_contents)]

DetectHashtagCoordination(posts) ==
    LET usage    == HashtagUsage(posts)
        hashtags == FirstOccurrences([i \in 1..Len(usage) |-> usage[i].hashtag])
        reported == SelectSeq(hashtags, LAMBDA h :
                        /\ Len(HashtagContents(usage, h)) >= HASHTAG_MIN_POSTS
                        /\ Cardinality(AuthorsOf(HashtagContents(usage, h)))
                               >= HASHTAG_MIN_AUTHORS)
    IN  [k \in 1..Len(reported) |->
            HashtagCampaign(reported[k], HashtagContents(usage, reported[k]))]

SimilarityCampaign(similar_contents) ==
    [type              |-> "content_similarity",
     similar_posts     |-> Len(similar_contents),
     accounts_involved |-> AuthorsOf(similar_contents),
     content_template  |-> similar_contents[1].content,
     platforms         |-> PlatformsOf(similar_contents),
     threat_level      |-> CalculateCampaignThreatLevel(similar_contents),
     members           |-> IdsOf(similar_contents)]

\* the clustering without processed.add(j)
RECURSIVE SimilarityFromUnmarked(_, _, _)
SimilarityFromUnmarked(posts, i, processed) ==
    IF i > Len(posts) THEN <<>>
    ELSE LET absorbed == {j \in (i + 1)..Len(posts) :
                             Similar(posts[i].content, posts[j].content)}
             similar_contents ==
                 SelectSeq(posts, LAMBDA c :
                     \E j \in {i} \cup absorbed : posts[j] = c)
         IN  (IF /\ Len(similar_contents) >= SIMILARITY_MIN_POSTS
                 /\ Cardinality(AuthorsOf(similar_contents)) >= SIMILARITY_MIN_AUTHORS
              THEN <<SimilarityCampaign(similar_contents)>>
              ELSE <<>>)
             \o SimilarityFromUnmarked(posts, i + 1, processed)

\* _detect_content_similarity from index i on, processed being the indices
\* absorbed so far
RECURSIVE SimilarityFrom(_, _, _)
SimilarityFrom(posts, i, processed) ==
    IF i > Len(posts) THEN <<>>
    ELSE IF i \in processed THEN SimilarityFrom(posts, i + 1, processed)
    ELSE LET absorbed == {j \in (i + 1)..Len(posts) :
                             /\ j \notin processed
                             /\ Similar(posts[i].content, posts[j].content)}
             similar_contents ==
                 SelectSeq(posts, LAMBDA c :
                     \E j \in {i} \cup absorbed : posts[j] = c)
         IN  (IF /\ Len(similar_contents) >= SIMILARITY_MIN_POSTS
                 /\ Cardinality(AuthorsOf(similar_contents)) >= SIMILARITY_MIN_AUTHORS
              THEN <<SimilarityCampaign(similar_contents)>>
              ELSE <<>>)
             \o SimilarityFrom(posts, i + 1, processed \cup absorbed)

DetectContentSimilarity(posts) == SimilarityFrom(posts, 1, {})

TimingCampaign(hour, hour_contents) ==
    [type              |-> "timing_coordination",
     time_window       |-> hour,
     posts_in_window   |-> Len(hour_contents),
     accounts_involved |-> AuthorsOf(hour_contents),
     platforms         |-> PlatformsOf(hour_contents),
     threat_level      |-> CalculateCampaignThreatLevel(hour_contents),
     members           |-> IdsOf(hour_contents)]

\* hour_groups[hour]
HourContents(posts, hour) ==
    SelectSeq(posts, LAMBDA c : HourKey(c.timestamp) = hour)

DetectTimingCoordination(posts) ==
    LET hours    == FirstOccurrences([i \in 1..Len(posts) |-> HourKey(posts[i].timestamp)])
        reported == SelectSeq(hours, LAMBDA h :
                        /\ Len(HourContents(posts, h)) >= TIMING_MIN_POSTS
                        /\ Cardinality(AuthorsOf(HourContents(posts, h)))
                               >= TIMING_MIN_AUTHORS)
    IN  [k \in 1..Len(reported) |->
            TimingCampaign(reported[k], HourContents(posts, reported[k]))]

\* time_grouped[time_key]
DayContents(posts, time_key) ==
    SelectSeq(posts, LAMBDA c : DayKey(c.timestamp) = time_key)

RECURSIVE CampaignsOfDays(_, _)
CampaignsOfDays(posts, time_keys) ==
    IF time_keys = <<>> THEN <<>>
    ELSE (IF Len(DayContents(posts, Head(time_keys))) < DAY_MIN_POSTS
          THEN <<>>
          ELSE DetectHashtagCoordination(DayContents(posts, Head(time_keys)))
               \o DetectContentSimilarity(DayContents(posts, Head(time_keys)))
               \o DetectTimingCoordination(DayContents(posts, Head(time_keys))))
         \o CampaignsOfDays(posts, Tail(time_keys))

\* detect_coordinated_campaigns: the list it returns
DetectCampaigns(posts) ==
    CampaignsOfDays(posts,
        FirstOccurrences([i \in 1..Len(posts) |-> DayKey(posts[i].timestamp)]))

(***************************************************************************)
(* The batches of the model                                                *)
(***************************************************************************)

\* three instants of one calendar day: 10:59:00, 11:01:00 and 11:01:00 one
\* microsecond later (datetime.now() carries microseconds)
T1059 == [day |-> 1, hour |-> 10, minute |-> 59, second |-> 0, microsecond |-> 0]
T1101 == [day |-> 1, hour |-> 11, minute |-> 1, second |-> 0, microsecond |-> 0]
T1101us == [day |-> 1, hour |-> 11, minute |-> 1, second |-> 0, microsecond |-> 1]

Timestamps == <<T1059, T1101, T1101us>>

AuthorNames == <<"a1", "a2", "a3">>

\* the posts: "#x go" scored LOW and "#X #x" scored MEDIUM
Posts ==
    << [content |-> <<"#", "x", " ", "g", "o">>, threat_level |-> "LOW"],
       [content |-> <<"#", "X", " ", "#", "x">>, threat_level |-> "MEDIUM"] >>

\* RealTimeMonitor._monitor_reddit: the CampaignContent built for a post
\* (engagement, mentions, url, sentiment_score and keywords_matched, which
\* no detector reads, are left out)
CampaignContent(id, t, a, p) ==
    [id           |-> id,
     platform     |-> "reddit",
     content      |-> Posts[p].content,
     author       |-> AuthorNames[a],
     timestamp    |-> Timestamps[t],
     hashtags     |-> HashtagsFound(Posts[p].content),
     threat_level |-> Posts[p].threat_level]

\* the largest batch
MaxBatch == 5

\* position of a (timestamp, author, post) choice in the order in which the
\* batches are built: by timestamp first, as detected_contents is
Rank(t, a, p) == ((t - 1) * Len(AuthorNames) + (a - 1)) * Len(Posts) + p

RankOf(c) ==
    Rank(CHOOSE t \in 1..Len(Timestamps) : Timestamps[t] = c.timestamp,
         CHOOSE a \in 1..Len(AuthorNames) : AuthorNames[a] = c.author,
         CHOOSE p \in 1..Len(Posts) : Posts[p].content = c.content)

\* self.detected_contents.append(content)
AppendContent(t, a, p) ==
    /\ Len(contents) < MaxBatch
    /\ IF contents = <<>> THEN TRUE
       ELSE RankOf(contents[Len(contents)]) <= Rank(t, a, p)
    /\ contents' = Append(contents, CampaignContent(Len(contents) + 1, t, a, p))
    /\ campaigns' = <<>>
    /\ analysed' = FALSE
    /\ UNCHANGED campaign_level
    /\ UNCHANGED <<threatVars, cdVars, enhVars, analysisVars>>

\* generate_threat_report: campaigns = detect_coordinated_campaigns(...)
DetectCoordinatedCampaigns ==
    /\ ~analysed
    /\ campaigns' = DetectCampaigns(contents)
    /\ analysed' = TRUE
    /\ UNCHANGED <<contents, campaign_level>>
    /\ UNCHANGED <<threatVars, cdVars, enhVars, analysisVars>>

\* no _calculate_campaign_threat_level result yet
NoLevel == "NONE"

CoordInit ==
    /\ contents = <<>>
    /\ campaigns = <<>>
    /\ analysed = FALSE
    /\ campaign_level = NoLevel

CoordIdle == CoordInit

(***************************************************************************)
(* _detect_content_similarity and _calculate_campaign_threat_level applied *)
(* to one group of contents, in every arrival order                        *)
(***************************************************************************)

\* three texts of one instant: "a b c d e" shares 5 of 6 words with each of
\* the two others (0.83 > 0.8), which share 5 of 7 with each other (0.71)
ClusterTexts ==
    << <<"a", " ", "b", " ", "c", " ", "d", " ", "e", " ", "f">>,
       <<"a", " ", "b", " ", "c", " ", "d", " ", "e">>,
       <<"a", " ", "b", " ", "c", " ", "d", " ", "e", " ", "g">> >>

ClusterAuthors == <<"a1", "a2">>

\* the largest group handed to _detect_content_similarity
MaxCluster == 4

\* the CampaignContent of a group: text p by author a
ClusterContent(id, p, a) ==
    [id           |-> id,
     platform     |-> "reddit",
     content      |-> ClusterTexts[p],
     author       |-> ClusterAuthors[a],
     timestamp    |-> T1059,
     hashtags     |-> <<>>,
     threat_level |-> "LOW"]

\* time_grouped[time_key].append(content)
AppendClusterContent(p, a) ==
    /\ Len(contents) < MaxCluster
    /\ contents' = Append(contents, ClusterContent(Len(contents) + 1, p, a))
    /\ campaigns' = <<>>
    /\ analysed' = FALSE
    /\ UNCHANGED campaign_level
    /\ UNCHANGED <<threatVars, cdVars, enhVars, analysisVars>>

\* similarity_campaigns = self._detect_content_similarity(time_contents)
DetectContentSimilarityCall ==
    /\ ~analysed
    /\ campaigns' = DetectContentSimilarity(contents)
    /\ analysed' = TRUE
    /\ UNCHANGED <<contents, campaign_level>>
    /\ UNCHANGED <<threatVars, cdVars, enhVars, analysisVars>>

\* the tiers a content can carry
ThreatLevels == <<"LOW", "MEDIUM", "HIGH", "CRITICAL">>

\* the longest list handed to _calculate_campaign_threat_level
MaxLevels == 3

\* a member of a cluster with tier l
LevelContent(id, l) ==
    [id           |-> id,
     platform     |-> "reddit",
     content      |-> ClusterTexts[2],
     author       |-> ClusterAuthors[1],
     timestamp    |-> T1059,
     hashtags     |-> <<>>,
     threat_level |-> ThreatLevels[l]]

\* similar_contents.append(content2), hour_contents, hashtag contents
AppendLevelContent(l) ==
    /\ Len(contents) < MaxLevels
    /\ contents' = Append(contents, LevelContent(Len(contents) + 1, l))
    /\ campaign_level' = NoLevel
    /\ UNCHANGED <<campaigns, analysed>>
    /\ UNCHANGED <<threatVars, cdVars, enhVars, analysisVars>>

\* 'threat_level': self._calculate_campaign_threat_level(similar_contents);
\* every caller hands over a list of at least 3 or 5 contents, the division
\* by len(contents) needs at least one
CalculateCampaignThreatLevelCall ==
    /\ contents # <<>>
    /\ campaign_level = NoLevel
    /\ campaign_level' = CalculateCampaignThreatLevel(contents)
    /\ UNCHANGED <<contents, campaigns, analysed>>
    /\ UNCHANGED <<threatVars, cdVars, enhVars, analysisVars>>

(***************************************************************************)
(* CoordinatedCampaignDetector._calculate_content_similarity               *)
(* (campaign_detector.py).  The quotient intersection / union is kept as   *)
(* the pair of its numerator and denominator; 0.0 is <<0, 1>>.             *)
(***************************************************************************)

CalculateContentSimilarity(content1, content2) ==
    LET words1 == WordSet(content1)
        words2 == WordSet(content2)
        intersection == Cardinality(words1 \cap words2)
        union        == Cardinality(words1 \cup words2)
    IN  IF union > 0 THEN <<intersection, union>> ELSE <<0, 1>>

\* the contents compared: every text of at most MaxSimLen characters
MaxSimLen == 3

SimChars == {"X", "x", "i", " "}

SimTexts == UNION {[1..n -> SimChars] : n \in 0..MaxSimLen}

NoSimilarity == <<>>

SimIdle ==
    /\ sim_contents = <<>>
    /\ similarity = NoSimilarity

SimInit ==
    /\ sim_contents \in SimTexts \X SimTexts
    /\ similarity = NoSimilarity

SimCall ==
    /\ sim_contents # <<>>
    /\ similarity' = CalculateContentSimilarity(sim_contents[1], sim_contents[2])
    /\ UNCHANGED sim_contents
    /\ UNCHANGED <<detectorVars, anomalyVars, scoreVars, inflVars, concVars, monVars, artVars>>

(***************************************************************************)
(* EngagementAnalyzer.detect_trending_anomalies (engagement_analyzer.py).  *)
(* A row of trending_patterns is one hourly observation of a key           *)
(* (keyword_or_hashtag, platform); hours_ago is the age of its             *)
(* hour_timestamp at the call.  The z-score is kept exactly, as the        *)
(* quotient num / den of its square.                                       *)
(***************************************************************************)

LOOKBACK_HOURS  == 48
RECENT_HOURS    == 6
MIN_DATA_POINTS == 12
ANOMALY_Z       == 2
HIGH_Z          == 4
MEDIUM_Z        == 3

\* groupby(key).agg(mean, std, count) over the rows of the lookback window,
\* as count, sum and sum of squares
BaselineStats(table, keyword_or_hashtag, platform) ==
    LET rows == SelectSeq(table, LAMBDA r :
                    /\ r.hours_ago <= LOOKBACK_HOURS
                    /\ r.keyword_or_hashtag = keyword_or_hashtag
                    /\ r.platform = platform)
    IN  [count |-> Len(rows),
         sum   |-> SumSeq([i \in 1..Len(rows) |-> rows[i].mention_count]),
         sumsq |-> SumSeq([i \in 1..Len(rows) |->
                              rows[i].mention_count * rows[i].mention_count])]

\* z_score ^ 2 for (mention_count - mean) / std.replace(0, 1), where
\* mean = sum / count and std ^ 2 = dev / (count * (count - 1))
ZScoreSquared(mention_count, stats) ==
    LET n    == stats.count
        dev  == n * stats.sumsq - stats.sum * stats.sum
        diff == n * mention_count - stats.sum
    IN  IF dev = 0 THEN [num |-> diff * diff, den |-> n * n]
        ELSE [num |-> diff * diff * (n - 1), den |-> n * dev]

\* abs(z_score) > k
StrengthExceeds(strength, k) == strength.num > k * k * strength.den

\* abs(z_score) of a at least that of b
StrengthGeq(a, b) ==
    IF a.den = b.den THEN a.num >= b.num
    ELSE a.num * b.den >= b.num * a.den

\* the two tests of the if / elif chain in the other order
AnomalyThreatLevelLoose(strength) ==
    IF StrengthExceeds(strength, MEDIUM_Z) THEN "MEDIUM"
    ELSE IF StrengthExceeds(strength, HIGH_Z) THEN "HIGH"
    ELSE "LOW"

AnomalyThreatLevel(strength) ==
    IF StrengthExceeds(strength, HIGH_Z) THEN "HIGH"
    ELSE IF StrengthExceeds(strength, MEDIUM_Z) THEN "MEDIUM"
    ELSE "LOW"

\* the filter on the data points, dropped
EnoughDataAlways(stats) == TRUE

EnoughData(stats) == stats.count >= MIN_DATA_POINTS

AnomalyRecord(row, stats) ==
    LET strength == ZScoreSquared(row.mention_count, stats)
    IN  [keyword_or_hashtag |-> row.keyword_or_hashtag,
         platform           |-> row.platform,
         current_mentions   |-> row.mention_count,
         anomaly_strength   |-> strength,
         threat_level       |-> AnomalyThreatLevel(strength),
         hours_ago          |-> row.hours_ago]

\* the results the call can return: sort_values(ascending = False) fixes the
\* order up to the records of equal abs(z_score).  The std of a single row
\* is NaN, and so is its z_score, which no comparison accepts.
TrendingAnomalies(table) ==
    LET StatsOf(r) == BaselineStats(table, r.keyword_or_hashtag, r.platform)
        recent  == SelectSeq(table, LAMBDA r : r.hours_ago <= RECENT_HOURS)
        merged  == SelectSeq(recent, LAMBDA r :
                       StatsOf(r).count >= 2 /\ EnoughData(StatsOf(r)))
        flagged == SelectSeq(merged, LAMBDA r :
                       StrengthExceeds(ZScoreSquared(r.mention_count, StatsOf(r)),
                                       ANOMALY_Z))
        n       == Len(flagged)
    IN  {s \in {[i \in 1..n |-> AnomalyRecord(flagged[p[i]], StatsOf(flagged[p[i]]))] :
                    p \in Permutations(1..n)} :
            \A i \in 1..(n - 1) :
                StrengthGeq(s[i].anomaly_strength, s[i + 1].anomaly_strength)}

\* ---- the tables read -----------------------------------------------------

\* the rows of a key between 6 and 48 hours old, and at most 6 hours old
MaxBaseline == 17
MaxRecent == 2

MentionCounts == {0, 1, 9}

TrendingRow(platform, hours_ago, mention_count) ==
    [keyword_or_hashtag |-> "#x", platform |-> platform,
     hours_ago |-> hours_ago, mention_count |-> mention_count]

\* the rows of ("#x", "twitter"): b baseline rows of which the first k are
\* silent, the recent rows rs, and perhaps one row beyond the window; then
\* perhaps one recent row of ("#x", "reddit")
TrendingTable(b, k, rs, expired, other) ==
    [i \in 1..Len(rs) |-> TrendingRow("twitter", i - 1, rs[i])]
    \o [i \in 1..b |-> TrendingRow("twitter", RECENT_HOURS + i,
                                   IF i <= k THEN 0 ELSE 1)]
    \o (IF expired THEN <<TrendingRow("twitter", LOOKBACK_HOURS + 1, 9)>> ELSE <<>>)
    \o (IF other THEN <<TrendingRow("reddit", 0, 9)>> ELSE <<>>)

RecentMentions ==
    {rs \in UNION {[1..n -> MentionCounts] : n \in 0..MaxRecent} :
        \A i \in 1..(Len(rs) - 1) : rs[i] <= rs[i + 1]}

NoAnomalies == [done |-> FALSE, records |-> <<>>]

AnomalyIdle ==
    /\ trending = <<>>
    /\ anomalies = NoAnomalies

AnomalyInit ==
    /\ \E b \in 0..MaxBaseline, rs \in RecentMentions, expired, other \in BOOLEAN :
           \E k \in 0..b : trending = TrendingTable(b, k, rs, expired, other)
    /\ anomalies = NoAnomalies

DetectTrendingAnomalies ==
    /\ trending # <<>>
    /\ \E records \in TrendingAnomalies(trending) :
           anomalies' = [done |-> TRUE, records |-> records]
    /\ UNCHANGED trending
    /\ UNCHANGED <<detectorVars, simVars, scoreVars, inflVars, concVars, monVars, artVars>>

(***************************************************************************)
(* EngagementAnalyzer.calculate_engagement_score (engagement_analyzer.py). *)
(* A metrics dictionary is a function on the keys it holds.  Weighted      *)
(* sums are kept in halves (2.5 is 5 halves); a quotient is the pair of    *)
(* its numerator and denominator.                                          *)
(***************************************************************************)

\* metrics.get(key, default)
Get(metrics, key, default) ==
    IF key \in DOMAIN metrics THEN metrics[key] ELSE default

\* the divisor without max(views, 1)
ViewsRaw(metrics) == Get(metrics, "views", 1)

Views(metrics) ==
    LET views == Get(metrics, "views", 1)
    IN  IF views > 1 THEN views ELSE 1

CalculateEngagementScore(metrics) ==
    LET likes    == Get(metrics, "likes", 0)
        shares   == Get(metrics, "shares", 0)
        comments == Get(metrics, "comments", 0)
        retweets == Get(metrics, "retweets", 0)
        weighted_engagement ==
            likes * 2 + shares * 6 + comments * 4 + retweets * 5
        engagement_rate ==
            [num |-> weighted_engagement, den |-> 2 * Views(metrics)]
    IN  [engagement_rate  |-> engagement_rate,
         \* 0.0, or np.log1p(shares + retweets) * engagement_rate
         virality_score   |->
             IF shares > 0 \/ retweets > 0
             THEN [zero |-> FALSE, log1p_of |-> shares + retweets,
                   times |-> engagement_rate]
             ELSE [zero |-> TRUE, log1p_of |-> 0,
                   times |-> [num |-> 0, den |-> 1]],
         total_engagement |-> weighted_engagement]

\* ---- the metrics scored --------------------------------------------------

\* a count is 0..MaxCount
MaxCount == 2

MetricKeys == {"likes", "shares", "comments", "retweets", "views"}

MetricsDicts == UNION {[keys -> 0..MaxCount] : keys \in SUBSET MetricKeys}

NoScore == [done |-> FALSE]

ScoreIdle ==
    /\ eng_metrics = <<>>
    /\ eng_score = NoScore

ScoreInit ==
    /\ eng_metrics \in MetricsDicts
    /\ eng_score = NoScore

CalculateEngagementScoreCall ==
    /\ eng_score' = [done |-> TRUE, value |-> CalculateEngagementScore(eng_metrics)]
    /\ UNCHANGED eng_metrics
    /\ UNCHANGED <<detectorVars, simVars, anomalyVars, inflVars, concVars, monVars, artVars>>

(***************************************************************************)
(* campaign_detector.EngagementAnalyzer: analyze_engagement and            *)
(* identify_influencers.  bot_score and the bot_like_ratio are in tenths,  *)
(* influence_score is in tenths too (0.4 is 4 tenths).                     *)
(***************************************************************************)

VIRAL_LIKES    == 1000
VIRAL_SHARES   == 500
VIRAL_COMMENTS == 200
BOT_LIKE_RATIO == 3
LIKES_TO_SHARES_MAX   == 20
COMMENTS_PER_100_LIKES == 1
BOT_MIN_LIKES  == 100

\* sum(engagement.values())
RECURSIVE SumValues(_)
SumValues(engagement) ==
    IF DOMAIN engagement = {} THEN 0
    ELSE LET metric == CHOOSE k \in DOMAIN engagement : TRUE
         IN  engagement[metric]
                 + SumValues([k \in DOMAIN engagement \ {metric} |-> engagement[k]])

Max1(count) == IF count > 1 THEN count ELSE 1

\* bot_score > bot_like_ratio, as >=
IsSuspiciousLoose(bot_score) == bot_score >= BOT_LIKE_RATIO

IsSuspicious(bot_score) == bot_score > BOT_LIKE_RATIO

\* the likes alone
IsViralByLikes(engagement) == Get(engagement, "likes", 0) > VIRAL_LIKES

IsViral(engagement) ==
    \/ Get(engagement, "likes", 0) > VIRAL_LIKES
    \/ Get(engagement, "shares", 0) > VIRAL_SHARES
    \/ Get(engagement, "comments", 0) > VIRAL_COMMENTS

\* the second heuristic without its floor of 100 likes
AnalyzeEngagementNoFloor(engagement) ==
    LET likes == Get(engagement, "likes", 0)
        many_likes == likes > LIKES_TO_SHARES_MAX * Max1(Get(engagement, "shares", 1))
        few_comments ==
            100 * Get(engagement, "comments", 0)
                < COMMENTS_PER_100_LIKES * Max1(Get(engagement, "likes", 1))
        bot_score == (IF many_likes THEN 3 ELSE 0) + (IF few_comments THEN 2 ELSE 0)
    IN  [total_engagement |-> SumValues(engagement),
         is_viral         |-> IsViral(engagement),
         bot_score        |-> bot_score,
         is_suspicious    |-> IsSuspicious(bot_score)]

AnalyzeEngagement(engagement) ==
    LET likes == Get(engagement, "likes", 0)
        \* likes_to_shares > 20
        many_likes == likes > LIKES_TO_SHARES_MAX * Max1(Get(engagement, "shares", 1))
        \* comments_to_likes < 0.01 and likes > 100
        few_comments ==
            /\ 100 * Get(engagement, "comments", 0)
                   < COMMENTS_PER_100_LIKES * Max1(Get(engagement, "likes", 1))
            /\ likes > BOT_MIN_LIKES
        bot_score == (IF many_likes THEN 3 ELSE 0) + (IF few_comments THEN 2 ELSE 0)
    IN  [total_engagement |-> SumValues(engagement),
         is_viral         |-> IsViral(engagement),
         bot_score        |-> bot_score,
         is_suspicious    |-> IsSuspicious(bot_score)]

ThreatPoints(level) ==
    CASE level = "CRITICAL" -> 10
      [] level = "HIGH"     -> 5
      [] level = "MEDIUM"   -> 2
      [] OTHER                     -> 0

\* author_metrics[author] after the loop over the batch, with the score
AuthorMetrics(posts, author) ==
    LET own == SelectSeq(posts, LAMBDA c : c.author = author)
        total_engagement ==
            SumSeq([i \in 1..Len(own) |-> SumValues(own[i].engagement)])
        viral_posts ==
            Cardinality({i \in 1..Len(own) :
                             AnalyzeEngagement(own[i].engagement).is_viral})
        threat_score ==
            SumSeq([i \in 1..Len(own) |-> ThreatPoints(own[i].threat_level)])
        platforms == {own[i].platform : i \in 1..Len(own)}
    IN  [author          |-> author,
         influence_score |-> total_engagement * 4 + viral_posts * 1000
                                 + threat_score * 100 + Cardinality(platforms) * 500,
         metrics |-> [post_count       |-> Len(own),
                      total_engagement |-> total_engagement,
                      viral_posts      |-> viral_posts,
                      threat_score     |-> threat_score,
                      platforms        |-> platforms]]

\* sorted(influencers, key = influence_score, reverse = True): stable, the
\* records of equal score stay in the order of the list
RECURSIVE SortedByInfluence(_)
SortedByInfluence(list) ==
    IF list = <<>> THEN <<>>
    ELSE LET top == CHOOSE i \in 1..Len(list) :
                        /\ \A j \in 1..Len(list) :
                               list[j].influence_score <= list[i].influence_score
                        /\ \A j \in 1..(i - 1) :
                               list[j].influence_score < list[i].influence_score
         IN  <<list[top]>> \o
             SortedByInfluence(SubSeq(list, 1, top - 1)
                                   \o SubSeq(list, top + 1, Len(list)))

\* the authors are the keys of author_metrics, in insertion order
IdentifyInfluencers(posts) ==
    LET authors == FirstOccurrences([i \in 1..Len(posts) |-> posts[i].author])
    IN  SortedByInfluence([k \in 1..Len(authors) |-> AuthorMetrics(posts, authors[k])])

\* ---- the batches analysed ------------------------------------------------

MaxPosts == 3

InfluenceAuthors == {"a1", "a2"}

\* platform, threat level and engagement of the posts of a batch
InfluencePosts ==
    { [platform |-> "reddit",  threat_level |-> "LOW",
       engagement |-> [likes |-> 1000, upvotes |-> 5]],
      [platform |-> "twitter", threat_level |-> "MEDIUM",
       engagement |-> [likes |-> 1001, shares |-> 500, comments |-> 200]],
      [platform |-> "reddit",  threat_level |-> "HIGH",
       engagement |-> [shares |-> 501]],
      [platform |-> "twitter", threat_level |-> "CRITICAL",
       engagement |-> [likes |-> 0, comments |-> 201]] }

\* the engagement of a single post, around the thresholds of the bot score
BotLikes    == {0, 20, 21, 100, 101}
BotShares   == {0, 1, 5, 6}
BotComments == {0, 1, 2}

BotEngagements ==
    UNION {{[k \in keys |-> CASE k = "likes"  -> l
                              [] k = "shares" -> s
                              [] OTHER        -> c] :
                l \in BotLikes, s \in BotShares, c \in BotComments} :
           keys \in SUBSET {"likes", "shares", "comments"}}

InfluenceContent(author, post) ==
    [author |-> author, platform |-> post.platform,
     threat_level |-> post.threat_level, engagement |-> post.engagement]

InfluenceBatches ==
    UNION {[1..n -> {InfluenceContent(a, p) : a \in InfluenceAuthors, p \in InfluencePosts}] :
               n \in 0..MaxPosts}
    \cup {<<[author |-> "a1", platform |-> "twitter", threat_level |-> "LOW",
             engagement |-> e]>> : e \in BotEngagements}

NoAnalysis == [done |-> FALSE]

NoInfluencers == [done |-> FALSE, list |-> <<>>]

InflIdle ==
    /\ inf_contents = <<>>
    /\ engagement_analysis = NoAnalysis
    /\ influencers = NoInfluencers

InflInit ==
    /\ inf_contents \in InfluenceBatches
    /\ engagement_analysis = NoAnalysis
    /\ influencers = NoInfluencers

AnalyzeEngagementCall(i) ==
    /\ engagement_analysis' =
           [done |-> TRUE, engagement |-> inf_contents[i].engagement,
            value |-> AnalyzeEngagement(inf_contents[i].engagement)]
    /\ UNCHANGED <<inf_contents, influencers>>
    /\ UNCHANGED <<detectorVars, simVars, anomalyVars, scoreVars, concVars, monVars, artVars>>

IdentifyInfluencersCall ==
    /\ inf_contents # <<>>
    /\ influencers' = [done |-> TRUE, list |-> IdentifyInfluencers(inf_contents)]
    /\ UNCHANGED <<inf_contents, engagement_analysis>>
    /\ UNCHANGED <<detectorVars, simVars, anomalyVars, scoreVars, concVars, monVars, artVars>>

(***************************************************************************)
(* Concurrent callers of KeywordDatabase.detect_keywords_in_text           *)
(* (enhanced_keyword_database.py), each on a text that matches one stored  *)
(* rule.  Every call opens its own connection with sqlite3.connect's       *)
(* default timeout: the UPDATE needs the write lock of the database file;  *)
(* while another connection holds it the busy handler sleeps and tries     *)
(* again, and when the timeout has passed the execute raises               *)
(* OperationalError (database is locked), which nothing catches.  The      *)
(* update is inside the holder's transaction until conn.commit().          *)
(***************************************************************************)

\* the callers, and the times a caller finds the file locked before its
\* timeout has passed
MaxCallers == 3
MaxBusyPolls == 2

Callers == 1..MaxCallers

\* cursor.execute(UPDATE ... detection_count = detection_count + 1): the
\* file is free, the caller's transaction begins and takes the write lock
ExecuteUpdate(c) ==
    /\ pc[c] = "execute"
    /\ db_lock = 0
    /\ db_lock' = c
    /\ pc' = [pc EXCEPT ![c] = "commit"]
    /\ UNCHANGED <<rule_count, polls>>
    /\ UNCHANGED <<detectorVars, simVars, anomalyVars, scoreVars, inflVars, monVars, artVars>>

\* the file is locked by another connection: sleep and try again
BusyRetry(c) ==
    /\ pc[c] = "execute"
    /\ db_lock # 0
    /\ polls[c] < MaxBusyPolls
    /\ polls' = [polls EXCEPT ![c] = @ + 1]
    /\ UNCHANGED <<rule_count, db_lock, pc>>
    /\ UNCHANGED <<detectorVars, simVars, anomalyVars, scoreVars, inflVars, monVars, artVars>>

\* still locked when the timeout has passed: the call ends in the exception
BusyTimeout(c) ==
    /\ pc[c] = "execute"
    /\ db_lock # 0
    /\ polls[c] = MaxBusyPolls
    /\ pc' = [pc EXCEPT ![c] = "raised"]
    /\ UNCHANGED <<rule_count, db_lock, polls>>
    /\ UNCHANGED <<detectorVars, simVars, anomalyVars, scoreVars, inflVars, monVars, artVars>>

\* conn.commit(): the increment is written and the lock released
Commit(c) ==
    /\ pc[c] = "commit"
    /\ db_lock = c
    /\ rule_count' = rule_count + 1
    /\ db_lock' = 0
    /\ pc' = [pc EXCEPT ![c] = "returned"]
    /\ UNCHANGED polls
    /\ UNCHANGED <<detectorVars, simVars, anomalyVars, scoreVars, inflVars, monVars, artVars>>

ConcIdle ==
    /\ rule_count = 0
    /\ db_lock = 0
    /\ pc = <<>>
    /\ polls = <<>>

ConcInit ==
    /\ rule_count = 0
    /\ db_lock = 0
    /\ pc = [c \in Callers |-> "execute"]
    /\ polls = [c \in Callers |-> 0]

(***************************************************************************)
(* campaign_detector.RealTimeMonitor: start_monitoring, stop_monitoring,   *)
(* the loop of a monitor thread (_monitor_platform, _monitor_reddit,       *)
(* _check_alert_conditions) and generate_threat_report, which the caller   *)
(* runs while the monitor threads run.  Only reddit is enabled in          *)
(* platform_configs.  A step of a thread is one access to the state the    *)
(* threads share: monitoring_active, detected_contents, alerts.            *)
(***************************************************************************)

\* the calls of start_monitoring the model follows
MaxStarts == 2

\* the keywords of a pass (the code takes up to 5) and the most posts
\* _simulate_reddit_posts returns for a keyword (the code: 1 to 3)
NumKeywords == 2
MaxSimulated == 2

\* the detections the model follows
MaxItems == 3

\* threading.Thread(target=self._monitor_platform, args=(platform,)) after
\* thread.start(): about to test the loop condition
NewThread(platform) ==
    [platform |-> platform, at |-> "while", keyword |-> 0, posts |-> 0,
     post |-> 0, content |-> 0, unscored |-> 0]

\* start_monitoring: the flag is set and one thread is started for every
\* enabled platform, whatever threads are running already
StartMonitoring ==
    /\ Len(threads) < MaxStarts
    /\ monitoring_active' = TRUE
    /\ threads' = Append(threads, NewThread("reddit"))
    /\ UNCHANGED <<detected_contents, alerts, report>>
    /\ UNCHANGED <<detectorVars, simVars, anomalyVars, scoreVars, inflVars,
                   concVars, artVars>>

\* stop_monitoring
StopMonitoring ==
    /\ monitoring_active' = FALSE
    /\ UNCHANGED <<threads, detected_contents, alerts, report>>
    /\ UNCHANGED <<detectorVars, simVars, anomalyVars, scoreVars, inflVars,
                   concVars, artVars>>

\* a step of thread i that touches only the thread itself
ThreadStep(i, thread) ==
    /\ threads' = [threads EXCEPT ![i] = thread]
    /\ UNCHANGED <<monitoring_active, detected_contents, alerts, report>>
    /\ UNCHANGED <<detectorVars, simVars, anomalyVars, scoreVars, inflVars,
                   concVars, artVars>>

\* _monitor_platform: while self.monitoring_active; when it holds the pass
\* of _monitor_reddit begins with its first keyword, else the thread returns
LoopTest(i) ==
    /\ threads[i].at = "while"
    /\ ThreadStep(i, IF monitoring_active
                     THEN [threads[i] EXCEPT !.at = "keyword", !.keyword = 1,
                                             !.unscored = 0]
                     ELSE [threads[i] EXCEPT !.at = "returned"])

\* _monitor_reddit: for keyword in keywords, simulated_posts =
\* self._simulate_reddit_posts(keyword); after the last keyword the pass is
\* over and the thread sleeps
SimulatePosts(i) ==
    /\ threads[i].at = "keyword"
    /\ IF threads[i].keyword > NumKeywords
       THEN ThreadStep(i, [threads[i] EXCEPT !.at = "sleep", !.keyword = 0,
                                             !.posts = 0, !.post = 0])
       ELSE \E n \in 1..MaxSimulated :
                ThreadStep(i, [threads[i] EXCEPT !.at = "score", !.posts = n,
                                                 !.post = 1])

\* _monitor_reddit: for post_data in simulated_posts, the post is scored by
\* is_anti_india_content (the simulated post holds the keyword, so it is
\* relevant) and self.detected_contents.append(content); after the last post
\* the next keyword follows
AppendDetected(i) ==
    /\ threads[i].at = "score"
    /\ IF threads[i].post > threads[i].posts
       THEN ThreadStep(i, [threads[i] EXCEPT !.at = "keyword",
                                             !.keyword = @ + 1])
       ELSE /\ Len(detected_contents) < MaxItems
            /\ detected_contents' =
                   Append(detected_contents, [id |-> Len(detected_contents) + 1])
            /\ threads' = [threads EXCEPT ![i].at = "alert",
                                          ![i].content = Len(detected_contents) + 1]
            /\ UNCHANGED <<monitoring_active, alerts, report>>
            /\ UNCHANGED <<detectorVars, simVars, anomalyVars, scoreVars,
                           inflVars, concVars, artVars>>

\* _monitor_reddit: an exception raised while the post is processed (the
\* scoring writes the detection counters to the database) leaves both loops
\* for the except clause of the keyword: the posts of the keyword that
\* follow are not scored, the next keyword is
ScoringRaises(i) ==
    /\ threads[i].at = "score"
    /\ threads[i].post <= threads[i].posts
    /\ ThreadStep(i, [threads[i] EXCEPT
                         !.at = "keyword", !.keyword = @ + 1,
                         !.unscored = @ + (threads[i].posts - threads[i].post)])

\* _check_alert_conditions(content, features): self.alerts.append(alert)
\* when a condition is met (threat level, viral engagement, severity)
CheckAlertConditions(i) ==
    /\ threads[i].at = "alert"
    /\ \E alert_triggered \in BOOLEAN :
           alerts' = IF alert_triggered
                     THEN Append(alerts, [content_id |-> threads[i].content])
                     ELSE alerts
    /\ threads' = [threads EXCEPT ![i].at = "score", ![i].post = @ + 1,
                                  ![i].content = 0]
    /\ UNCHANGED <<monitoring_active, detected_contents, report>>
    /\ UNCHANGED <<detectorVars, simVars, anomalyVars, scoreVars, inflVars,
                   concVars, artVars>>

\* _monitor_platform: time.sleep(60) (or 300) is over
Wake(i) ==
    /\ threads[i].at = "sleep"
    /\ ThreadStep(i, [threads[i] EXCEPT !.at = "while"])

\* no generate_threat_report call in progress
NoReport ==
    [at |-> "idle", recent_contents |-> <<>>, recent_alerts |-> <<>>,
     total_detections_24h |-> 0, total_alerts_24h |-> 0]

\* generate_threat_report: recent_contents = self.get_recent_detections(24),
\* a copy of the detections of the last 24 hours (all of them, here)
GetRecentDetections ==
    /\ report.at \in {"idle", "done"}
    /\ report' = [NoReport EXCEPT !.at = "alerts",
                                  !.recent_contents = detected_contents]
    /\ UNCHANGED <<monitoring_active, threads, detected_contents, alerts>>
    /\ UNCHANGED <<detectorVars, simVars, anomalyVars, scoreVars, inflVars,
                   concVars, artVars>>

\* generate_threat_report: recent_alerts = self.get_recent_alerts(24)
GetRecentAlerts ==
    /\ report.at = "alerts"
    /\ report' = [report EXCEPT !.at = "build", !.recent_alerts = alerts]
    /\ UNCHANGED <<monitoring_active, threads, detected_contents, alerts>>
    /\ UNCHANGED <<detectorVars, simVars, anomalyVars, scoreVars, inflVars,
                   concVars, artVars>>

\* generate_threat_report: the campaigns, influencers and breakdowns are
\* computed from recent_contents, the summary counts the two lists
BuildReport ==
    /\ report.at = "build"
    /\ report' = [report EXCEPT
                     !.at = "done",
                     !.total_detections_24h = Len(report.recent_contents),
                     !.total_alerts_24h = Len(report.recent_alerts)]
    /\ UNCHANGED <<monitoring_active, threads, detected_contents, alerts>>
    /\ UNCHANGED <<detectorVars, simVars, anomalyVars, scoreVars, inflVars,
                   concVars, artVars>>

\* RealTimeMonitor.__init__
MonInit ==
    /\ monitoring_active = FALSE
    /\ threads = <<>>
    /\ detected_contents = <<>>
    /\ alerts = <<>>
    /\ report = NoReport

MonIdle == MonInit

(***************************************************************************)
(* ai_analyzer.AIAnalyzer.process_unanalyzed_articles on the articles      *)
(* table of database.py.  GEMINI_API_KEY is empty, as in the source: the   *)
(* request is refused (or raises) and analyze_content answers with         *)
(* enhanced_fallback_analysis.  Sentiment scores are in 1/100.             *)
(***************************************************************************)

\* enhanced_fallback_analysis: a part of strong_anti_india
StrongAntiIndia ==
    << <<"b","o","y","c","o","t","t"," ","i","n","d","i","a">>,
       <<"h","a","t","e"," ","i","n","d","i","a">> >>

\* the titles of the articles: "Boycott India", "hate India boycott India"
\* and "India"
ArticleTitles ==
    { <<"B","o","y","c","o","t","t"," ","I","n","d","i","a">>,
      <<"h","a","t","e"," ","I","n","d","i","a"," ","b","o","y","c","o","t","t"," ","I","n","d","i","a">>,
      <<"I","n","d","i","a">> }

ArticleUrls == {"u1", "u2"}

\* sentiment_score REAL: NULL, or a score
NullScore == [null |-> TRUE]

Score(value) == [null |-> FALSE, value |-> value]

\* what a caller of save_article passes as sentiment_score
SavedScores == {NullScore, Score(-50)}

\* the articles the model follows; get_articles(limit=50) returns them all
MaxArticles == 2
ARTICLE_LIMIT == 50

\* analyze_content returned None
NotRelevant == [none |-> TRUE]

\* enhanced_fallback_analysis(title, content): None without a strong term,
\* else sentiment -0.3 for each term found, not below -1.0, and relevance
\* 3 plus the terms found, not above 5
EnhancedFallbackAnalysis(title, content) ==
    LET text == Lower(title \o <<" ">> \o content)
        strong_matches ==
            Cardinality({i \in 1..Len(StrongAntiIndia) :
                            Contains(StrongAntiIndia[i], text)})
    IN  IF strong_matches = 0 THEN NotRelevant
        ELSE [none |-> FALSE,
              sentiment_score |-> IF -30 * strong_matches < -100 THEN -100
                                  ELSE -30 * strong_matches,
              relevance_score |-> IF 3 + strong_matches > 5 THEN 5
                                  ELSE 3 + strong_matches]

\* analyze_content(title, content) without an API key
AnalyzeContent(title, content) == EnhancedFallbackAnalysis(title, content)

\* database.save_article: INSERT OR REPLACE INTO articles, url being UNIQUE;
\* a row with the url is deleted and the new row is the newest of the table
SaveArticleRow(rows, article_data) ==
    Append(SelectSeq(rows, LAMBDA r : r.url # article_data.url), article_data)

\* get_articles(limit): ORDER BY collected_date DESC LIMIT limit, the newest
\* row first
RECURSIVE Reversed(_)
Reversed(rows) ==
    IF rows = <<>> THEN <<>> ELSE Reversed(Tail(rows)) \o <<Head(rows)>>

GetArticles(rows, limit) ==
    LET newest_first == Reversed(rows)
    IN  SubSeq(newest_first, 1, IF Len(rows) < limit THEN Len(rows) ELSE limit)

\* articles_df[articles_df['sentiment_score'].isna()]
Unanalyzed(rows) ==
    SelectSeq(GetArticles(rows, ARTICLE_LIMIT), LAMBDA r : r.sentiment_score.null)

\* process_unanalyzed_articles: the loop over the unanalyzed rows; reading
\* analysis['sentiment_score'] of a None raises TypeError, which the except
\* clause of the row prints: the row is neither saved nor counted
RECURSIVE ProcessRows(_, _, _)
ProcessRows(rows, unanalyzed, count) ==
    IF unanalyzed = <<>> THEN [rows |-> rows, processed |-> count]
    ELSE LET article  == Head(unanalyzed)
             analysis == AnalyzeContent(article.title, article.content)
         IN  IF analysis.none
             THEN ProcessRows(rows, Tail(unanalyzed), count)
             ELSE ProcessRows(
                      SaveArticleRow(rows,
                          [article EXCEPT
                              !.sentiment_score = Score(analysis.sentiment_score),
                              !.relevance_score = analysis.relevance_score]),
                      Tail(unanalyzed), count + 1)

\* no process_unanalyzed_articles call yet on the table as it is
NoProcess == [done |-> FALSE]

\* a caller of database.save_article (a collector) stores an article
SaveArticle(url, title, score) ==
    /\ \/ Len(articles) < MaxArticles
       \/ \E i \in 1..Len(articles) : articles[i].url = url
    /\ articles' = SaveArticleRow(articles,
                       [url |-> url, title |-> title, content |-> <<>>,
                        sentiment_score |-> score, relevance_score |-> 0])
    /\ process_result' = NoProcess
    /\ UNCHANGED <<detectorVars, simVars, anomalyVars, scoreVars, inflVars,
                   concVars, monVars>>

\* AIAnalyzer.process_unanalyzed_articles()
ProcessUnanalyzedArticles ==
    /\ \E result \in {ProcessRows(articles, Unanalyzed(articles), 0)} :
           /\ articles' = result.rows
           /\ process_result' =
                  [done      |-> TRUE,
                   selected  |-> {Unanalyzed(articles)[i].url :
                                     i \in 1..Len(Unanalyzed(articles))},
                   processed |-> result.processed]
    /\ UNCHANGED <<detectorVars, simVars, anomalyVars, scoreVars, inflVars,
                   concVars, monVars>>

ArtInit ==
    /\ articles = <<>>
    /\ process_result = NoProcess

ArtIdle == ArtInit

\* the analysers at rest, for the specifications of the detectors
AnalysisIdle == SimIdle /\ AnomalyIdle /\ ScoreIdle /\ InflIdle /\ ConcIdle
                   /\ MonIdle /\ ArtIdle

(***************************************************************************)
(* Specifications                                                          *)
(***************************************************************************)

CdIdle ==
    /\ cd_keywords = <<>>
    /\ cd_hashtags = <<>>
    /\ cd_patterns = <<>>
    /\ nlp = NoNLP
    /\ features = NoFeatures

\* ---- SpecThreat: the step functions applied to a severity ----------------

ClassifyDefault ==
    /\ threat_level' = [threat_level EXCEPT !.default = ThreatLevel(total_severity)]
    /\ UNCHANGED total_severity
    /\ UNCHANGED <<cdVars, enhVars, coordVars, analysisVars>>

ClassifyLight ==
    /\ threat_level' = [threat_level EXCEPT !.light = ThreatLevelLight(total_severity)]
    /\ UNCHANGED total_severity
    /\ UNCHANGED <<cdVars, enhVars, coordVars, analysisVars>>

InitThreat == ThreatInit /\ CdIdle /\ EnhIdle /\ CoordIdle /\ AnalysisIdle

NextThreat == ClassifyDefault \/ ClassifyLight

SpecThreat == InitThreat /\ [][NextThreat]_vars

\* ---- SpecScore: NLPProcessor over a given rule snapshot -------------------

\* the rules a snapshot is drawn from: ("boycott India", 7) of the initial
\* keywords and the three rules of the worked example
ScoreKeywords ==
    << [keyword |-> <<"b","o","y","c","o","t","t"," ","I","n","d","i","a">>,
        category |-> "economic_warfare", severity |-> 700],
       [keyword |-> <<"b","o","y","c","o","t","t"," ","i","n","d","i","a">>,
        category |-> "boycott_campaign", severity |-> 280] >>

ScoreHashtags ==
    << [hashtag |-> <<"#","b","o","y","c","o","t","t","i","n","d","i","a">>,
        category |-> "boycott_campaign", severity |-> 250] >>

ScorePatterns ==
    << [pattern |-> << { <<"h","i","n","d","u"," ","t","e","r","r","o","r","i","s","m">> } >>,
        description |-> "hindu terrorism", severity |-> 900] >>

RECURSIVE Pick(_, _)
Pick(s, I) ==
    IF s = <<>> THEN <<>>
    ELSE (IF Len(s) \in I THEN Pick(SubSeq(s, 1, Len(s) - 1), I) \o <<s[Len(s)]>>
          ELSE Pick(SubSeq(s, 1, Len(s) - 1), I))

SubSeqs(s) == {Pick(s, I) : I \in SUBSET (1..Len(s))}

InitScore ==
    /\ \E kws \in SubSeqs(ScoreKeywords) :
           cd_keywords = InsertOrIgnoreKeywords(<<>>, kws)
    /\ \E hts \in SubSeqs(ScoreHashtags) :
           cd_hashtags = InsertOrIgnoreHashtags(<<>>, hts)
    /\ \E pats \in SubSeqs(ScorePatterns) :
           cd_patterns = InsertPatterns(<<>>, pats)
    /\ nlp = LoadNlpResources(cd_keywords, cd_hashtags, cd_patterns)
    /\ features = NoFeatures
    /\ ThreatIdle /\ EnhIdle /\ CoordIdle /\ AnalysisIdle

NextScore ==
    \E content \in Texts : IsAntiIndiaContent(content)

SpecScore == InitScore /\ [][NextScore]_vars

\* ---- SpecCD: the keyword database of campaign_detector.py ----------------

\* KeywordDatabase(db_path) is constructed at most MaxConstruct times on the
\* same database file
MaxConstruct == 2

\* what the callers of add_keyword pass
CdAddedKeywords == { <<"b","o","y","c","o","t","t"," ","I","n","d","i","a">> }
CdAddedSeverities == {300, -100}

CdConstructed == Len(cd_patterns) > 0

\* KeywordDatabase.__init__
CdConstruct ==
    /\ Len(cd_patterns) < MaxConstruct * Len(InitialPatterns)
    /\ CdLoadInitialKeywords
    /\ UNCHANGED <<nlp, features>>
    /\ UNCHANGED <<threatVars, enhVars, coordVars, analysisVars>>

\* KeywordDatabase.add_keyword
CdAddKeyword(keyword, category, severity) ==
    /\ CdConstructed
    /\ cd_keywords' = CdInsertOrReplaceKeyword(cd_keywords, keyword, category, severity)
    /\ UNCHANGED <<cd_hashtags, cd_patterns, nlp, features>>
    /\ UNCHANGED <<threatVars, enhVars, coordVars, analysisVars>>

\* NLPProcessor.__init__
NlpConstruct ==
    /\ CdConstructed
    /\ nlp' = LoadNlpResources(cd_keywords, cd_hashtags, cd_patterns)
    /\ UNCHANGED <<cd_keywords, cd_hashtags, cd_patterns, features>>
    /\ UNCHANGED <<threatVars, enhVars, coordVars, analysisVars>>

InitCD == CdIdle /\ ThreatIdle /\ EnhIdle /\ CoordIdle /\ AnalysisIdle

NextCD ==
    \/ CdConstruct
    \/ \E k \in CdAddedKeywords, c \in AddedCategories, s \in CdAddedSeverities :
           CdAddKeyword(k, c, s)
    \/ NlpConstruct
    \/ \E content \in Texts : IsAntiIndiaContent(content)

SpecCD == InitCD /\ [][NextCD]_vars

\* ---- SpecEnh: the keyword database of enhanced_keyword_database.py -------

InitEnh == EnhInit /\ ThreatIdle /\ CdIdle /\ CoordIdle /\ AnalysisIdle

NextEnh ==
    \/ EnhConstruct
    \/ \E k \in AddedKeywords, c \in AddedCategories, w \in AddedWeights :
           EnhAddKeyword(k, c, w)
    \/ \E h \in AddedHashtags, c \in AddedCategories, w \in AddedWeights :
           EnhAddHashtag(h, c, w, "general")
    \/ \E text \in Texts : EnhDetect(text)

SpecEnh == InitEnh /\ [][NextEnh]_vars

(***************************************************************************)
(* SpecCoord: CoordinatedCampaignDetector on the batches of the monitor    *)
(***************************************************************************)

InitCoord == ThreatIdle /\ CdIdle /\ EnhIdle /\ CoordInit /\ AnalysisIdle

NextCoord ==
    \/ \E t \in 1..Len(Timestamps), a \in 1..Len(AuthorNames), p \in 1..Len(Posts) :
           AppendContent(t, a, p)
    \/ DetectCoordinatedCampaigns

SpecCoord == InitCoord /\ [][NextCoord]_vars

\* ---- SpecSim: _calculate_content_similarity on pairs of contents ---------

DetectorsIdle == ThreatIdle /\ CdIdle /\ EnhIdle /\ CoordIdle

InitSim == SimInit /\ DetectorsIdle /\ AnomalyIdle /\ ScoreIdle /\ InflIdle /\ ConcIdle
    /\ MonIdle /\ ArtIdle

NextSim == SimCall

SpecSim == InitSim /\ [][NextSim]_vars

\* ---- SpecAnomaly: detect_trending_anomalies on tables of observations ----

InitAnomaly == AnomalyInit /\ DetectorsIdle /\ SimIdle /\ ScoreIdle /\ InflIdle /\ ConcIdle
    /\ MonIdle /\ ArtIdle

NextAnomaly == DetectTrendingAnomalies

SpecAnomaly == InitAnomaly /\ [][NextAnomaly]_vars

\* ---- SpecEngScore: calculate_engagement_score on metrics dictionaries ----

InitEngScore == ScoreInit /\ DetectorsIdle /\ SimIdle /\ AnomalyIdle /\ InflIdle /\ ConcIdle
    /\ MonIdle /\ ArtIdle

NextEngScore == CalculateEngagementScoreCall

SpecEngScore == InitEngScore /\ [][NextEngScore]_vars

\* ---- SpecInfluence: campaign_detector.EngagementAnalyzer on batches ------

InitInfluence == InflInit /\ DetectorsIdle /\ SimIdle /\ AnomalyIdle /\ ScoreIdle /\ ConcIdle
    /\ MonIdle /\ ArtIdle

NextInfluence ==
    \/ \E i \in 1..Len(inf_contents) : AnalyzeEngagementCall(i)
    \/ IdentifyInfluencersCall

SpecInfluence == InitInfluence /\ [][NextInfluence]_vars

\* ---- SpecQuery: get_active_keywords between additions and detections -----

InitQuery == InitEnh

NextQuery ==
    \/ EnhConstruct
    \/ \E k \in QueryKeywords, c \in AddedCategories, w \in AddedWeights :
           EnhAddKeyword(k, c, w)
    \/ \E text \in QueryTexts : EnhDetect(text)
    \/ \E c \in QueryCategories, w \in QueryWeights : EnhGetActiveKeywords(c, w)

SpecQuery == InitQuery /\ [][NextQuery]_vars

\* ---- SpecConc: concurrent callers of detect_keywords_in_text -------------

InitConc ==
    ConcInit /\ DetectorsIdle /\ SimIdle /\ AnomalyIdle /\ ScoreIdle /\ InflIdle
        /\ MonIdle /\ ArtIdle

NextConc ==
    \E c \in Callers : ExecuteUpdate(c) \/ BusyRetry(c) \/ BusyTimeout(c) \/ Commit(c)

SpecConc == InitConc /\ [][NextConc]_vars

\* --- _detect_content_similarity on one group, in every order --------------
InitCluster == InitCoord

NextCluster ==
    \/ \E p \in 1..Len(ClusterTexts), a \in 1..Len(ClusterAuthors) :
           AppendClusterContent(p, a)
    \/ DetectContentSimilarityCall

SpecCluster == InitCluster /\ [][NextCluster]_vars

\* --- _calculate_campaign_threat_level on the tiers of a list --------------
InitLevel == InitCoord

NextLevel ==
    \/ \E l \in 1..Len(ThreatLevels) : AppendLevelContent(l)
    \/ CalculateCampaignThreatLevelCall

SpecLevel == InitLevel /\ [][NextLevel]_vars

\* ---- SpecMonitor: start_monitoring, stop_monitoring and the threads ------

InitMonitor ==
    MonInit /\ DetectorsIdle /\ SimIdle /\ AnomalyIdle /\ ScoreIdle /\ InflIdle
        /\ ConcIdle /\ ArtIdle

NextMonitor ==
    \/ StartMonitoring
    \/ StopMonitoring
    \/ \E i \in 1..Len(threads) :
           \/ LoopTest(i)
           \/ SimulatePosts(i)
           \/ AppendDetected(i)
           \/ ScoringRaises(i)
           \/ CheckAlertConditions(i)
           \/ Wake(i)

SpecMonitor == InitMonitor /\ [][NextMonitor]_vars

\* ---- SpecReport: generate_threat_report beside one monitor thread --------

\* after start_monitoring: the flag set, the reddit thread started
InitReport ==
    /\ monitoring_active = TRUE
    /\ threads = <<NewThread("reddit")>>
    /\ detected_contents = <<>>
    /\ alerts = <<>>
    /\ report = NoReport
    /\ DetectorsIdle /\ SimIdle /\ AnomalyIdle /\ ScoreIdle /\ InflIdle
    /\ ConcIdle /\ ArtIdle

NextReport ==
    \/ LoopTest(1)
    \/ SimulatePosts(1)
    \/ AppendDetected(1)
    \/ ScoringRaises(1)
    \/ CheckAlertConditions(1)
    \/ Wake(1)
    \/ GetRecentDetections
    \/ GetRecentAlerts
    \/ BuildReport

SpecReport == InitReport /\ [][NextReport]_vars

\* ---- SpecArticles: process_unanalyzed_articles on the articles table -----

InitArticles ==
    ArtInit /\ DetectorsIdle /\ SimIdle /\ AnomalyIdle /\ ScoreIdle /\ InflIdle
        /\ ConcIdle /\ MonIdle

NextArticles ==
    \/ \E url \in ArticleUrls, title \in ArticleTitles, score \in SavedScores :
           SaveArticle(url, title, score)
    \/ ProcessUnanalyzedArticles

SpecArticles == InitArticles /\ [][NextArticles]_vars

(***************************************************************************)
(* Properties                                                              *)
(***************************************************************************)

\* C1 (SpecThreat): the threat level is a step function of the severity
\* with inclusive lower cutoffs.  Default profile: severity >= 25 is
\* CRITICAL, 15 <= severity < 25 is HIGH, 8 <= severity < 15 is MEDIUM,
\* severity < 8 is LOW.  Lighter profile: >= 5 HIGH, >= 3 MEDIUM, >= 1 LOW,
\* else NONE.
C1_ThreatLevelIsStepFunction ==
    /\ threat_level.default # NotClassified =>
          /\ threat_level.default = "CRITICAL" <=> total_severity >= 2500
          /\ threat_level.default = "HIGH"
                 <=> (1500 <= total_severity /\ total_severity < 2500)
          /\ threat_level.default = "MEDIUM"
                 <=> (800 <= total_severity /\ total_severity < 1500)
          /\ threat_level.default = "LOW" <=> total_severity < 800
    /\ threat_level.light # NotClassified =>
          /\ threat_level.light = "HIGH" <=> total_severity >= 500
          /\ threat_level.light = "MEDIUM"
                 <=> (300 <= total_severity /\ total_severity < 500)
          /\ threat_level.light = "LOW"
                 <=> (100 <= total_severity /\ total_severity < 300)
          /\ threat_level.light = "NONE" <=> total_severity < 100

\* a severity of exactly 8.0 classified MEDIUM by the default profile and
\* HIGH by the lighter one
C1_Witness ==
    /\ total_severity = 800
    /\ threat_level.default = "MEDIUM"
    /\ threat_level.light = "HIGH"

\* the rules a scoring call matched, as a set: (kind, rule text, weight)
MatchedRuleSet(f) ==
    {<<"keyword", f.matched_keywords[i].keyword, f.matched_keywords[i].severity>> :
        i \in 1..Len(f.matched_keywords)}
    \cup {<<"hashtag", f.matched_hashtags[i].hashtag, f.matched_hashtags[i].severity>> :
        i \in 1..Len(f.matched_hashtags)}
    \cup {<<"pattern", f.matched_patterns[i].pattern, f.matched_patterns[i].severity>> :
        i \in 1..Len(f.matched_patterns)}

RECURSIVE SumWeights(_)
SumWeights(rules) ==
    IF rules = {} THEN 0
    ELSE LET r == CHOOSE x \in rules : TRUE
         IN  r[3] + SumWeights(rules \ {r})

\* C2 (SpecCD): the severity a scoring call returns is the sum of the
\* weights of the distinct rules that matched the text, each matching rule
\* counted once.
C2_SeverityIsSumOfDistinctRules ==
    features.valid =>
        features.total_severity = SumWeights(MatchedRuleSet(features))

\* C3 (SpecEnh): a keyword or hashtag rule is detected in a text iff the
\* case-folded rule text is a substring of the case-folded text; this holds
\* for every active stored rule, the default rules stored with upper-case
\* letters included.
C3_MatchIffFoldedSubstring ==
    [][\A text \in Texts :
          (detection'.text = text /\ EnhDetect(text)) =>
              /\ \A i \in 1..Len(enh_keywords) :
                    enh_keywords[i].is_active =>
                        ((\E j \in 1..Len(detection'.detected_keywords) :
                             detection'.detected_keywords[j].keyword
                                 = enh_keywords[i].keyword)
                         <=> Contains(Lower(enh_keywords[i].keyword), Lower(text)))
              /\ \A i \in 1..Len(enh_hashtags) :
                    ((\E j \in 1..Len(detection'.detected_hashtags) :
                         detection'.detected_hashtags[j].hashtag
                             = enh_hashtags[i].hashtag)
                     <=> Contains(Lower(enh_hashtags[i].hashtag), Lower(text)))]_vars

\* the snapshot of the worked example: ("boycott india", keyword, 2.8),
\* ("hindu terrorism", pattern, 9), ("#boycottindia", hashtag, 2.5)
ExampleSnapshot ==
    /\ nlp.loaded
    /\ nlp.keywords = <<ScoreKeywords[2]>>
    /\ nlp.hashtags = ScoreHashtags
    /\ nlp.patterns = ScorePatterns

\* C4 (SpecScore): scoring "boycott India and Hindu terrorism now
\* #BoycottIndia" against the three rules of the example matches all three
\* and yields severity 14.3 and threat level MEDIUM.
C4_WorkedExample ==
    (ExampleSnapshot /\ features.valid /\ features.content = ExampleText) =>
        /\ features.matched_keywords = nlp.keywords
        /\ features.matched_hashtags = nlp.hashtags
        /\ Len(features.matched_patterns) = 1
        /\ features.matched_patterns[1].pattern = "hindu terrorism"
        /\ features.total_severity = 1430
        /\ features.threat_level = "MEDIUM"

C4_Witness ==
    /\ ExampleSnapshot
    /\ features.valid
    /\ features.content = ExampleText
    /\ features.total_severity = 1430

\* one if the rule text is among the matched ones, else zero
Matched(texts, text) == IF text \in texts THEN 1 ELSE 0

\* C5 (SpecCD): a scoring call increments the stored detection counter of
\* every rule it matched (keyword, hashtag and pattern alike) by exactly
\* one and leaves the counters of the unmatched rules unchanged.
C5_CountersFollowMatches ==
    [][\A content \in Texts :
          (features'.content = content /\ IsAntiIndiaContent(content)) =>
              /\ \A i \in 1..Len(cd_keywords) :
                    cd_keywords'[i].detection_count =
                        cd_keywords[i].detection_count
                        + Matched({features'.matched_keywords[j].keyword :
                                      j \in 1..Len(features'.matched_keywords)},
                                  cd_keywords[i].keyword)
              /\ \A i \in 1..Len(cd_hashtags) :
                    cd_hashtags'[i].detection_count =
                        cd_hashtags[i].detection_count
                        + Matched({features'.matched_hashtags[j].hashtag :
                                      j \in 1..Len(features'.matched_hashtags)},
                                  cd_hashtags[i].hashtag)
              /\ \A i \in 1..Len(cd_patterns) :
                    cd_patterns'[i].detection_count =
                        cd_patterns[i].detection_count
                        + Matched({features'.matched_patterns[j].pattern :
                                      j \in 1..Len(features'.matched_patterns)},
                                  cd_patterns[i].description)]_vars

\* the rules a detection matched, as a set of (kind, rule text)
DetectedRuleSet(d) ==
    {<<"keyword", d.detected_keywords[i].keyword>> : i \in 1..Len(d.detected_keywords)}
    \cup {<<"hashtag", d.detected_hashtags[i].hashtag>> : i \in 1..Len(d.detected_hashtags)}
    \cup {<<"pattern", d.detected_patterns[i].pattern>> : i \in 1..Len(d.detected_patterns)}

\* C6 (SpecEnh): for a fixed rule snapshot holding any rules the store
\* accepted, a text T1 whose matched rules are among those matched by a
\* text T2 has a severity no larger than that of T2.
C6_SeverityMonotonic ==
    [][\A t2 \in Texts :
          (detection'.text = t2 /\ EnhDetect(t2)) =>
              \A t1 \in Texts :
                  \E d1 \in {DetectKeywordsInText(enh_keywords, enh_hashtags,
                                                  enh_patterns, t1)} :
                      DetectedRuleSet(d1) \subseteq DetectedRuleSet(detection')
                          => d1.total_score <= detection'.total_score]_vars

\* C7 (SpecScore): an item is classified campaign-relevant iff at least one
\* keyword, hashtag or pattern matched, or sentiment_score < -0.3 and
\* severity > 3, both comparisons strict.
C7_RelevanceGate ==
    features.valid =>
        (features.is_anti_india <=>
            \/ features.matched_keywords # <<>>
            \/ features.matched_hashtags # <<>>
            \/ features.matched_patterns # <<>>
            \/ (features.sentiment_score < -30 /\ features.total_severity > 300))

\* an item that matched a pattern only, classified relevant
C7_Witness ==
    /\ features.valid
    /\ features.matched_keywords = <<>>
    /\ features.matched_hashtags = <<>>
    /\ features.matched_patterns # <<>>
    /\ features.is_anti_india

\* C8 (SpecCoord): every cluster detect_coordinated_campaigns returns meets
\* the minimums of its type, each member item and each author counted
\* once: a hashtag cluster has >= 5 distinct items from >= 3 distinct
\* authors, a content-similarity cluster >= 3 from >= 2, a timing cluster
\* >= 5 from >= 3.
C8_ClustersMeetMinimums ==
    analysed =>
        \A i \in 1..Len(campaigns) :
            /\ campaigns[i].type = "hashtag_coordination" =>
                  /\ Cardinality(campaigns[i].members) >= 5
                  /\ Cardinality(campaigns[i].accounts_involved) >= 3
            /\ campaigns[i].type = "content_similarity" =>
                  /\ Cardinality(campaigns[i].members) >= 3
                  /\ Cardinality(campaigns[i].accounts_involved) >= 2
            /\ campaigns[i].type = "timing_coordination" =>
                  /\ Cardinality(campaigns[i].members) >= 5
                  /\ Cardinality(campaigns[i].accounts_involved) >= 3

\* the items of the batch that carry the hashtag (case-folded) on the day
CarryingOn(hashtag, day) ==
    {i \in 1..Len(contents) :
        /\ contents[i].timestamp.day = day
        /\ \E k \in 1..Len(contents[i].hashtags) :
               Lower(contents[i].hashtags[k]) = hashtag}

AuthorsAt(items) == {contents[i].author : i \in items}

\* the calendar days on which the hashtag is carried by 5 items of 3 authors
QualifyingDays(hashtag) ==
    {d \in {contents[i].timestamp.day : i \in 1..Len(contents)} :
        /\ Cardinality(CarryingOn(hashtag, d)) >= 5
        /\ Cardinality(AuthorsAt(CarryingOn(hashtag, d))) >= 3}

\* C9 (SpecCoord): if 5 items by 3 distinct authors carry the same hashtag
\* (compared case-insensitively) and all have timestamps on the same
\* calendar day, whatever their time of day, exactly one hashtag cluster is
\* reported for that hashtag (and that day).
C9_OneHashtagClusterPerDay ==
    analysed =>
        \A i \in 1..Len(contents) :
            \A k \in 1..Len(contents[i].hashtags) :
                \E h \in {Lower(contents[i].hashtags[k])} :
                    QualifyingDays(h) # {} =>
                        Cardinality({c \in 1..Len(campaigns) :
                                        /\ campaigns[c].type = "hashtag_coordination"
                                        /\ campaigns[c].hashtag = h})
                            = Cardinality(QualifyingDays(h))

\* the items of the batch in the clock hour of item i
InHourOf(i) ==
    {j \in 1..Len(contents) :
        /\ contents[j].timestamp.day = contents[i].timestamp.day
        /\ contents[j].timestamp.hour = contents[i].timestamp.hour}

\* C10 (SpecCoord): timing detection groups the items by clock hour:
\* whenever 5 items from 3 distinct authors fall in one hour bucket a
\* timing cluster is reported for that bucket, and two items in different
\* clock hours (10:59 and 11:01) are never counted in the same bucket.
C10_TimingByClockHour ==
    analysed =>
        /\ \A i \in 1..Len(contents) :
               (Cardinality(InHourOf(i)) >= 5 /\ Cardinality(AuthorsAt(InHourOf(i))) >= 3)
               => \E c \in 1..Len(campaigns) :
                      /\ campaigns[c].type = "timing_coordination"
                      /\ campaigns[c].time_window = HourKey(contents[i].timestamp)
        /\ \A c \in 1..Len(campaigns) :
               campaigns[c].type = "timing_coordination" =>
                   \A i \in 1..Len(contents) :
                       contents[i].id \in campaigns[c].members =>
                           campaigns[c].members
                               \subseteq {contents[j].id : j \in InHourOf(i)}

\* ---- C11 ------------------------------------------------------------------

RECURSIVE SplitWords(_, _)
SplitWords(s, word) ==
    LET done == IF word = <<>> THEN {} ELSE {word}
    IN  IF s = <<>> THEN done
        ELSE IF IsSpace(Head(s)) THEN done \cup SplitWords(Tail(s), <<>>)
        ELSE SplitWords(Tail(s), Append(word, Head(s)))

FoldedWords(text) == {Lower(w) : w \in SplitWords(text, <<>>)}

\* C11: the similarity of two contents is the Jaccard index of their
\* case-folded, whitespace-split word sets: |A and B| / |A or B|; it is 0
\* when neither content has a word, 1 for a content with a word compared
\* with itself, and the same whichever content comes first.
C11_SimilarityIsJaccard ==
    similarity # NoSimilarity =>
        LET A == FoldedWords(sim_contents[1])
            B == FoldedWords(sim_contents[2])
        IN  /\ similarity[2] > 0
            /\ similarity[1] * Cardinality(A \cup B)
                   = Cardinality(A \cap B) * similarity[2]
            /\ (A \cup B = {} => similarity[1] = 0)
            /\ (sim_contents[1] = sim_contents[2] /\ A # {}
                    => similarity[1] = similarity[2])
            /\ similarity =
                   CalculateContentSimilarity(sim_contents[2], sim_contents[1])

\* two contents that share one of their two words, one of them in capitals
C11_Witness ==
    /\ similarity # NoSimilarity
    /\ 0 < similarity[1] /\ similarity[1] < similarity[2]
    /\ sim_contents[1] # Lower(sim_contents[1])
    /\ Lower(sim_contents[1]) # Lower(sim_contents[2])

\* ---- C12, C13 -------------------------------------------------------------

\* the mention counts of the hourly observations of a key in the baseline
\* window of 48 hours
BaselineOf(platform) ==
    LET rows == SelectSeq(trending, LAMBDA r :
                    r.platform = platform /\ r.hours_ago <= 48)
    IN  [i \in 1..Len(rows) |-> rows[i].mention_count]

\* C12: every flagged record belongs to a (keyword_or_hashtag, platform) key
\* with at least 12 hourly observations in the baseline window; a key with
\* fewer is never flagged, whatever its recent counts are.
C12_NoFlagBelowTwelveObservations ==
    anomalies.done =>
        \A i \in 1..Len(anomalies.records) :
            Len(BaselineOf(anomalies.records[i].platform)) >= 12

\* eleven observations, one of them a recent spike of 9 mentions over a
\* silent baseline, and nothing is flagged
C12_Witness ==
    /\ anomalies.done /\ anomalies.records = <<>>
    /\ Len(BaselineOf("twitter")) = 11
    /\ \E i \in 1..Len(trending) :
           /\ trending[i].platform = "twitter"
           /\ trending[i].hours_ago <= 6
           /\ trending[i].mention_count = 9
    /\ \A i \in 1..Len(trending) :
           trending[i].hours_ago > 6 => trending[i].mention_count = 0

\* of a baseline xs: its length n, its sum, and n * n * (n - 1) * std * std
Moments(xs) ==
    [n   |-> Len(xs),
     sum |-> SumSeq(xs),
     dev |-> SumSeq([i \in 1..Len(xs) |->
                 (Len(xs) * xs[i] - SumSeq(xs)) * (Len(xs) * xs[i] - SumSeq(xs))])]

\* |z| > k for z = (x - mean) / std, the std 0 replaced by 1
ZAbove(x, mo, k) ==
    LET diff == mo.n * x - mo.sum
    IN  IF mo.dev = 0 THEN diff * diff > k * k * mo.n * mo.n
        ELSE diff * diff * (mo.n - 1) > k * k * mo.dev

RecordsOf(row) ==
    {i \in 1..Len(anomalies.records) :
        /\ anomalies.records[i].platform = row.platform
        /\ anomalies.records[i].hours_ago = row.hours_ago}

\* C13: a recent-hour row of a key with sufficient history is returned, once,
\* iff |z| > 2 for z = (observed - mean) / std with std = 0 replaced by 1;
\* its threat_level is HIGH if |z| > 4, MEDIUM if 3 < |z| <= 4, LOW
\* otherwise; the returned records are in non-increasing order of |z|.
C13_ZScoreFlagsAndLevels ==
    anomalies.done =>
        /\ \A p \in {trending[j].platform : j \in 1..Len(trending)} :
               \E mo \in {Moments(BaselineOf(p))} :
                   \A j \in 1..Len(trending) :
                       (/\ trending[j].platform = p
                        /\ trending[j].hours_ago <= 6
                        /\ mo.n >= 12) =>
                           LET x == trending[j].mention_count
                           IN  /\ Cardinality(RecordsOf(trending[j]))
                                      = (IF ZAbove(x, mo, 2) THEN 1 ELSE 0)
                               /\ \A i \in RecordsOf(trending[j]) :
                                      /\ anomalies.records[i].current_mentions = x
                                      /\ anomalies.records[i].threat_level =
                                             (IF ZAbove(x, mo, 4) THEN "HIGH"
                                              ELSE IF ZAbove(x, mo, 3) THEN "MEDIUM"
                                              ELSE "LOW")
        /\ \A i \in 1..(Len(anomalies.records) - 1) :
               LET a == anomalies.records[i].anomaly_strength
                   b == anomalies.records[i + 1].anomaly_strength
               IN  \/ a.den = b.den /\ a.num >= b.num
                   \/ a.den # b.den /\ a.num * b.den >= b.num * a.den

\* a result with a HIGH record
C13_Witness ==
    /\ anomalies.done
    /\ \E i \in 1..Len(anomalies.records) : anomalies.records[i].threat_level = "HIGH"

\* ---- C14 ------------------------------------------------------------------

\* a count of the metrics, 0 when the key is missing
CountOf(key) == IF key \in DOMAIN eng_metrics THEN eng_metrics[key] ELSE 0

\* C14: weighted_engagement = likes * 1.0 + shares * 3.0 + comments * 2.0
\* + retweets * 2.5 (here doubled); engagement_rate is weighted_engagement
\* over max(views, 1), so that views of 0 or missing never divides by zero;
\* virality_score is exactly 0 whenever shares = retweets = 0.
C14_EngagementScore ==
    eng_score.done =>
        LET weighted2 == 2 * CountOf("likes") + 6 * CountOf("shares")
                             + 4 * CountOf("comments") + 5 * CountOf("retweets")
            views == IF CountOf("views") >= 1 THEN CountOf("views") ELSE 1
            rate  == eng_score.value.engagement_rate
        IN  /\ eng_score.value.total_engagement = weighted2
            /\ rate.den > 0
            /\ rate.num * 2 * views = weighted2 * rate.den
            /\ (CountOf("shares") = 0 /\ CountOf("retweets") = 0
                    => eng_score.value.virality_score.zero)

\* liked content with views = 0 and neither shares nor retweets
C14_Witness ==
    /\ eng_score.done
    /\ "views" \in DOMAIN eng_metrics /\ eng_metrics["views"] = 0
    /\ CountOf("likes") > 0
    /\ CountOf("shares") = 0 /\ CountOf("retweets") = 0
    /\ eng_score.value.engagement_rate.num > 0
    /\ eng_score.value.virality_score.zero

\* ---- C15 ------------------------------------------------------------------

\* a count of the engagement analysed, 0 when the key is missing
EngagementCount(key) ==
    IF key \in DOMAIN engagement_analysis.engagement
    THEN engagement_analysis.engagement[key] ELSE 0

\* C15: bot_score (in tenths) is 0.3 when likes / max(shares, 1) > 20 plus
\* 0.2 when comments / max(likes, 1) < 0.01 and likes > 100; is_suspicious
\* holds iff bot_score strictly exceeds the configured ratio of 0.3.
C15_BotScore ==
    engagement_analysis.done =>
        LET likes    == EngagementCount("likes")
            shares   == EngagementCount("shares")
            comments == EngagementCount("comments")
            first    == likes > 20 * (IF shares > 1 THEN shares ELSE 1)
            second   == /\ 100 * comments < (IF likes > 1 THEN likes ELSE 1)
                        /\ likes > 100
        IN  /\ engagement_analysis.value.bot_score
                   = (IF first THEN 3 ELSE 0) + (IF second THEN 2 ELSE 0)
            /\ engagement_analysis.value.is_suspicious
                   <=> engagement_analysis.value.bot_score > 3

\* the first heuristic alone: bot_score is 0.3 and the content not suspicious
C15_Witness ==
    /\ engagement_analysis.done
    /\ engagement_analysis.value.bot_score = 3
    /\ ~engagement_analysis.value.is_suspicious
    /\ EngagementCount("likes") = 21

\* ---- C16 ------------------------------------------------------------------

PostsOf(author) == SelectSeq(inf_contents, LAMBDA c : c.author = author)

RawEngagement(c) ==
    LET Count(key) == IF key \in DOMAIN c.engagement THEN c.engagement[key] ELSE 0
    IN  Count("likes") + Count("shares") + Count("comments") + Count("upvotes")

ViralPost(c) ==
    LET Count(key) == IF key \in DOMAIN c.engagement THEN c.engagement[key] ELSE 0
    IN  Count("likes") > 1000 \/ Count("shares") > 500 \/ Count("comments") > 200

\* influence_score of an author in tenths
InfluenceOf(author) ==
    LET own == PostsOf(author)
        Of(level) == Cardinality({i \in 1..Len(own) : own[i].threat_level = level})
    IN  4 * SumSeq([i \in 1..Len(own) |-> RawEngagement(own[i])])
            + 1000 * Cardinality({i \in 1..Len(own) : ViralPost(own[i])})
            + 100 * (10 * Of("CRITICAL") + 5 * Of("HIGH") + 2 * Of("MEDIUM"))
            + 500 * Cardinality({own[i].platform : i \in 1..Len(own)})

\* C16: each author of the batch is returned once, with influence_score =
\* 0.4 * (sum of raw engagement counts) + 100 * (posts with likes > 1000 or
\* shares > 500 or comments > 200) + 10 * threat_score + 50 * (distinct
\* platforms), threat_score adding 10 / 5 / 2 / 0 per CRITICAL / HIGH /
\* MEDIUM / LOW post; the result is a function of the batch alone.
C16_InfluenceScore ==
    influencers.done =>
        /\ {influencers.list[k].author : k \in 1..Len(influencers.list)}
               = {inf_contents[i].author : i \in 1..Len(inf_contents)}
        /\ \A k \in 1..Len(influencers.list) :
               /\ influencers.list[k].influence_score
                      = InfluenceOf(influencers.list[k].author)
               /\ \A j \in 1..Len(influencers.list) :
                      influencers.list[j].author = influencers.list[k].author
                          => j = k

\* an author with a viral post, posts of two platforms and a CRITICAL post
C16_Witness ==
    /\ influencers.done
    /\ \E k \in 1..Len(influencers.list) :
           /\ influencers.list[k].metrics.viral_posts = 1
           /\ influencers.list[k].metrics.post_count = 3
           /\ influencers.list[k].metrics.platforms = {"reddit", "twitter"}
           /\ influencers.list[k].metrics.threat_score >= 10

\* ---- C17 ------------------------------------------------------------------

\* C17: identify_influencers returns the authors in non-increasing order of
\* influence_score, authors of equal score in the order of their identifiers
\* (so that the order does not depend on the order of the batch).
C17_InfluencersOrdered ==
    influencers.done =>
        \A k \in 1..(Len(influencers.list) - 1) :
            LET a == influencers.list[k]
                b == influencers.list[k + 1]
            IN  \/ a.influence_score > b.influence_score
                \/ /\ a.influence_score = b.influence_score
                   /\ a.author = "a1" /\ b.author = "a2"

\* ---- C18 ------------------------------------------------------------------

\* C18: add_keyword of a keyword that is already stored, in whatever letter
\* case the caller writes it, fails as a duplicate and changes nothing in
\* the table (the stored weight, category and detection_count stay).
C18_DuplicateRuleRejected ==
    [][\A k \in AddedKeywords, c \in AddedCategories, w \in AddedWeights :
           (/\ \E i \in 1..Len(enh_keywords) :
                   Lower(enh_keywords[i].keyword) = Lower(k)
            /\ EnhAddKeyword(k, c, w))
               => (added' = "False" /\ enh_keywords' = enh_keywords)]_vars

\* ---- C19 ------------------------------------------------------------------

\* the position in the table of the rule a returned row was read from
RowOf(row) == CHOOSE i \in 1..Len(enh_keywords) : enh_keywords[i].keyword = row.keyword

C20_AtomicIncrements ==
    (\A c \in Callers : pc[c] \in {"returned", "raised"}) =>
        /\ \A c \in Callers : pc[c] = "returned"
        /\ rule_count = MaxCallers

\* ---- C23 ------------------------------------------------------------------

\* the Jaccard index of the folded word sets strictly above 0.8
SimilarAbove(c1, c2) ==
    LET A == FoldedWords(c1)
        B == FoldedWords(c2)
    IN  10 * Cardinality(A \cap B) > 8 * Cardinality(A \cup B)

\* the items absorbed by the seeds before position k
RECURSIVE ClusteredBefore(_)
ClusteredBefore(k) ==
    IF k = 1 THEN {}
    ELSE LET before == ClusteredBefore(k - 1)
         IN  IF (k - 1) \in before THEN before
             ELSE before \cup
                  {j \in k..Len(contents) :
                      /\ j \notin before
                      /\ SimilarAbove(contents[k - 1].content, contents[j].content)}

\* the cluster seeded by the item at position k
GreedyCluster(k) ==
    {k} \cup {j \in (k + 1)..Len(contents) :
                /\ j \notin ClusteredBefore(k)
                /\ SimilarAbove(contents[k].content, contents[j].content)}

\* the seeds whose cluster has 3 items of 2 authors
ReportedSeeds ==
    {k \in 1..Len(contents) :
        /\ k \notin ClusteredBefore(k)
        /\ Cardinality(GreedyCluster(k)) >= 3
        /\ Cardinality({contents[j].author : j \in GreedyCluster(k)}) >= 2}

\* C23: content-similarity clustering is greedy in input order: every item
\* not yet absorbed seeds a cluster of itself and every later item not yet
\* absorbed whose similarity to the seed is strictly above 0.8; an absorbed
\* item never seeds or joins another cluster; a cluster is reported only
\* with at least 3 items of at least 2 distinct authors, in seed order.
C23_GreedyClustering ==
    analysed =>
        /\ Len(campaigns) = Cardinality(ReportedSeeds)
        /\ \A k \in ReportedSeeds : \E c \in 1..Len(campaigns) :
               /\ campaigns[c].members = GreedyCluster(k)
               /\ campaigns[c].similar_posts = Cardinality(GreedyCluster(k))
               /\ campaigns[c].content_template = contents[k].content
        /\ \A c, d \in 1..Len(campaigns) :
               c < d => /\ campaigns[c].members \cap campaigns[d].members = {}
                        /\ \E i \in campaigns[c].members :
                               \A j \in campaigns[d].members : i < j
        /\ \A c \in 1..Len(campaigns) :
               /\ Cardinality(campaigns[c].members) >= 3
               /\ Cardinality(campaigns[c].accounts_involved) >= 2

\* one cluster is reported, and an item left out of it is similar to one of
\* its members though not to its seed
C23_Witness ==
    /\ analysed
    /\ Len(campaigns) = 1
    /\ \E j \in 1..Len(contents) :
           /\ j \notin campaigns[1].members
           /\ \E i \in campaigns[1].members :
                  SimilarAbove(contents[i].content, contents[j].content)

\* ---- C24 ------------------------------------------------------------------

\* how many members of the list carry the tier
TierCount(level) ==
    Cardinality({i \in 1..Len(contents) : contents[i].threat_level = level})

TierTotal ==
    TierCount("LOW") + 2 * TierCount("MEDIUM") + 3 * TierCount("HIGH")
        + 4 * TierCount("CRITICAL")

\* C24: the threat level of a cluster follows the average of the tiers of
\* its members (LOW 1, MEDIUM 2, HIGH 3, CRITICAL 4): CRITICAL from 3.5,
\* HIGH from 2.5, MEDIUM from 1.5, LOW below; the cutoffs are inclusive, so
\* one LOW and one MEDIUM member give MEDIUM.
C24_LevelFromAverageTier ==
    campaign_level # NoLevel =>
        LET n == Len(contents)
        IN  /\ campaign_level = "CRITICAL" <=> 10 * TierTotal >= 35 * n
            /\ campaign_level = "HIGH" <=>
                   (10 * TierTotal >= 25 * n /\ 10 * TierTotal < 35 * n)
            /\ campaign_level = "MEDIUM" <=>
                   (10 * TierTotal >= 15 * n /\ 10 * TierTotal < 25 * n)
            /\ campaign_level = "LOW" <=> 10 * TierTotal < 15 * n
            /\ (n = 2 /\ TierCount("LOW") = 1 /\ TierCount("MEDIUM") = 1
                    => campaign_level = "MEDIUM")

\* one LOW and one MEDIUM member were levelled MEDIUM
C24_Witness ==
    /\ Len(contents) = 2
    /\ TierCount("LOW") = 1
    /\ TierCount("MEDIUM") = 1
    /\ campaign_level = "MEDIUM"

\* ---- C26 ------------------------------------------------------------------

\* the groups of at least 3 items of at least 2 authors that are pairwise
\* similar above 0.8
SimilarGroups ==
    {Q \in SUBSET (1..Len(contents)) :
        /\ Cardinality(Q) >= 3
        /\ Cardinality({contents[i].author : i \in Q}) >= 2
        /\ \A i, j \in Q : i # j =>
               SimilarAbove(contents[i].content, contents[j].content)}

\* C26: whenever the group handed to _detect_content_similarity holds at
\* least 3 items of at least 2 distinct authors that are pairwise similar
\* above 0.8, a reported similarity cluster contains one of them, in every
\* input order.
C26_SimilarGroupReported ==
    analysed =>
        \A Q \in SimilarGroups :
            \E c \in 1..Len(campaigns) : campaigns[c].members \cap Q # {}

\* ---- C27 ------------------------------------------------------------------

\* the first heuristic: more than 20 likes for each share (at least one share
\* counted)
ManyLikesPerShare ==
    \A shares \in {1, EngagementCount("shares")} :
        EngagementCount("likes") > 20 * shares

\* the second heuristic: more than 100 likes and fewer than one comment for
\* 100 likes
FewCommentsPerLike ==
    /\ EngagementCount("likes") > 100
    /\ 100 * EngagementCount("comments") < EngagementCount("likes")

\* C27: with the default bot_like_ratio of 0.3, analyze_engagement marks a
\* content suspicious exactly when both bot heuristics fire; either one
\* alone never does.
C27_SuspiciousIffBothHeuristics ==
    engagement_analysis.done =>
        /\ engagement_analysis.value.is_suspicious
               <=> (ManyLikesPerShare /\ FewCommentsPerLike)
        /\ (ManyLikesPerShare /\ ~FewCommentsPerLike
               => ~engagement_analysis.value.is_suspicious)
        /\ (FewCommentsPerLike /\ ~ManyLikesPerShare
               => ~engagement_analysis.value.is_suspicious)

\* the second heuristic alone: 101 likes with 6 shares and no comment
C27_Witness ==
    /\ engagement_analysis.done
    /\ FewCommentsPerLike
    /\ ~ManyLikesPerShare
    /\ engagement_analysis.value.bot_score = 2
    /\ ~engagement_analysis.value.is_suspicious

\* ---- C28 ------------------------------------------------------------------

\* every rule the processor holds has a positive weight
PositiveWeights ==
    /\ \A i \in 1..Len(nlp.keywords) : nlp.keywords[i].severity > 0
    /\ \A i \in 1..Len(nlp.hashtags) : nlp.hashtags[i].severity > 0
    /\ \A i \in 1..Len(nlp.patterns) : nlp.patterns[i].severity > 0

\* a rule of the processor is found in the content
RuleFound(content) ==
    \/ \E i \in 1..Len(nlp.keywords) :
           Contains(Lower(nlp.keywords[i].keyword), Lower(content))
    \/ \E i \in 1..Len(nlp.hashtags) :
           Contains(Lower(nlp.hashtags[i].hashtag), Lower(content))
    \/ \E i \in 1..Len(nlp.patterns) :
           RegexSearch(nlp.patterns[i].pattern, content)

\* C28 (SpecScore): whenever every stored rule has a positive weight,
\* is_anti_india_content returns true iff at least one keyword, hashtag or
\* pattern matched; the sentiment clause (sentiment_score < -0.3 and
\* total_severity > 3) never makes relevant an item that matched no rule.
C28_RelevantIffRuleMatched ==
    (features.valid /\ PositiveWeights) =>
        /\ features.is_anti_india <=> RuleFound(features.content)
        /\ (~RuleFound(features.content) /\ features.sentiment_score < -30)
               => (features.total_severity = 0 /\ ~features.is_anti_india)

\* a content with words and a polarity below -0.3 that matched no rule and
\* was not classified relevant
C28_Witness ==
    /\ features.valid
    /\ PositiveWeights
    /\ features.content # <<>>
    /\ ~RuleFound(features.content)
    /\ features.sentiment_score < -30
    /\ ~features.is_anti_india

\* ---- C25 ------------------------------------------------------------------

\* the rules of a table as a set, without the counters
KeywordSet(rows) ==
    {<<rows[i].keyword, rows[i].category, rows[i].severity>> : i \in 1..Len(rows)}

HashtagSet(rows) ==
    {<<rows[i].hashtag, rows[i].category, rows[i].severity>> : i \in 1..Len(rows)}

PatternSet(rows) ==
    {<<rows[i].pattern, rows[i].description, rows[i].severity>> : i \in 1..Len(rows)}

\* the severity a processor loaded from the three tables gives a content
SeverityWith(kws, hts, pats, content) ==
    LET loaded == LoadNlpResources(kws, hts, pats)
        found(text) == Contains(Lower(text), Lower(content))
    IN  SumSeq(Severities(SelectSeq(loaded.keywords, LAMBDA k : found(k.keyword))))
        + SumSeq(Severities(SelectSeq(loaded.hashtags, LAMBDA h : found(h.hashtag))))
        + SumSeq(Severities(SelectSeq(loaded.patterns,
                                      LAMBDA p : RegexSearch(p.pattern, content))))

\* C25 (SpecCD): constructing the rule store again on an initialised
\* database is idempotent: the sets of stored keywords, hashtags and phrase
\* patterns are the same as before the construction, and the severity score
\* of any text does not change.
C25_ConstructionIdempotent ==
    [][(CdConstructed /\ CdConstruct) =>
          /\ KeywordSet(cd_keywords') = KeywordSet(cd_keywords)
          /\ HashtagSet(cd_hashtags') = HashtagSet(cd_hashtags)
          /\ PatternSet(cd_patterns') = PatternSet(cd_patterns)
          /\ \A content \in Texts :
                 SeverityWith(cd_keywords', cd_hashtags', cd_patterns', content)
                     = SeverityWith(cd_keywords, cd_hashtags, cd_patterns, content)]_vars

\* ---- C29 ------------------------------------------------------------------

\* the threads of a platform that have not left their loop
Running(platform) ==
    {i \in 1..Len(threads) :
        threads[i].platform = platform /\ threads[i].at # "returned"}

\* C29 (SpecMonitor): across any sequence of start_monitoring and
\* stop_monitoring calls, at most one monitor thread of an enabled platform
\* is running its loop at any time.
C29_OneThreadPerPlatform ==
    Cardinality(Running("reddit")) <= 1

\* ---- C22 ------------------------------------------------------------------

\* C22 (SpecMonitor): a failure raised while one item of a batch is
\* processed does not prevent another item from being processed: every
\* other post of the monitoring pass is still scored.
C22_FailureSkipsNoOtherItem ==
    \A i \in 1..Len(threads) : threads[i].unscored = 0

\* ---- C21 ------------------------------------------------------------------

\* C21 (SpecReport): a report generated while the monitor thread appends
\* detections is computed from one snapshot: every alert it lists refers to
\* an item among the detections it counted, and its counts are those of the
\* lists it holds.
C21_ReportFromOneSnapshot ==
    report.at = "done" =>
        /\ \A a \in 1..Len(report.recent_alerts) :
               \E c \in 1..Len(report.recent_contents) :
                   report.recent_contents[c].id = report.recent_alerts[a].content_id
        /\ report.total_detections_24h = Len(report.recent_contents)
        /\ report.total_alerts_24h = Len(report.recent_alerts)

\* ---- C30 ------------------------------------------------------------------

\* the rows of the table whose sentiment_score is NULL
NullRows == {i \in 1..Len(articles) : articles[i].sentiment_score.null}

\* C30 (SpecArticles): after process_unanalyzed_articles has returned, every
\* article it selected as unanalyzed is stored with a sentiment_score that
\* is not NULL and is counted in the total returned, so that a call that
\* follows selects none; this includes the articles in which the analysis
\* finds no anti-India indicator.
C30_SelectedArticlesAnalysed ==
    process_result.done =>
        /\ \A url \in process_result.selected :
               \E i \in 1..Len(articles) :
                   articles[i].url = url /\ ~articles[i].sentiment_score.null
        /\ process_result.processed = Cardinality(process_result.selected)
        /\ NullRows = {}

====
